---- MODULE Spec2Model ----
(***************************************************************************)
(* A model of the Page Monitor background service worker:                  *)
(*   - the activity log (ActivityLog ring buffer, ActivityLogManager),     *)
(*   - the monitoring service (start / stop / restore, the refresh cycle   *)
(*     with its extract-retry loop, change detection, webhook dispatch).   *)
(*                                                                         *)
(* Asynchronous functions are modelled as tasks: an action runs the        *)
(* synchronous code between two awaits.  chrome.storage.local serves the    *)
(* calls of the service worker in the order they were issued, so a storage *)
(* call takes effect when it is issued and the continuations of storage    *)
(* calls resume in issue order (storeQ); the continuations of every other  *)
(* API (tabs, messaging, timers, fetch) resume in any order.               *)
(***************************************************************************)
EXTENDS Integers, Sequences, FiniteSets, TLC

VARIABLES
  \* ---- ActivityLog (ring buffer) ----
  entries,            \* this.entries: the backing array
  writeIndex,         \* this.writeIndex
  size,               \* this.size
  \* ---- ActivityLogManager ----
  failureCounters,    \* this.failureCounters: Map tabId -> count
  activityLogStore,   \* chrome.storage.local key 'activityLog'
  loadPending,        \* loadFromStorage() issued its get and has not resumed
  loadValue,          \* what that get read
  nextId,             \* source of unique entry ids
  clock,              \* Date.now()
  \* ---- history of the log (observation only) ----
  added,              \* every entry handed to ActivityLog.add since the last clear/construction
  history,            \* every entry created by log(), over all runs
  expected,           \* at the last restart: the last 50 entries logged before it
  restarts,           \* number of service worker restarts so far
  recorded,           \* tabId -> recordFailure calls since its last recordSuccess, clear() or construction
  \* ---- browser and pages (environment) ----
  tabs,               \* chrome.tabs: tabId -> [open, url]
  page,               \* tabId -> what the page shows under the selector
  \* ---- chrome.storage.local ----
  monitoringConfig,   \* key 'monitoringConfig': tabId -> config
  webhookUrl,         \* key 'webhookUrl': the global webhook
  \* ---- service worker memory ----
  monitoringIntervals,\* Map tabId -> interval id
  timers,             \* the intervals that setInterval created and nothing cleared
  nextTimer,          \* the next interval id
  tasks,              \* the asynchronous calls in flight, by slot
  storeQ,             \* slots awaiting a chrome.storage.local call, in issue order
  \* ---- observation only ----
  posts,              \* every fetch() issued: the POSTs
  responses,          \* every sendResponse() of a command handler
  stopDone,           \* tabs whose stop command completed, no start since
  exhausted,          \* tabId -> consecutive cycles that used up the retry budget
  outcomes,           \* what each finished change detection read, wrote and decided
  late,               \* effects of cancelled cycles after the stop completed
  ticks,              \* interval ticks so far
  commands            \* commands received so far

logVars == <<entries, writeIndex, size, failureCounters, activityLogStore,
             loadPending, loadValue, nextId, clock, added, history, expected, restarts,
             recorded>>

monVars == <<tabs, page, monitoringConfig, webhookUrl, monitoringIntervals, timers,
             nextTimer, tasks, storeQ, posts, responses, stopDone, exhausted, outcomes,
             late, ticks, commands>>

vars == <<logVars, monVars>>

(***************************************************************************)
(* Bounds of the model                                                     *)
(***************************************************************************)
MaxAdds == 102        \* ring specification: entries added in total
MaxLogged == 4        \* manager specification: log() calls in total
MaxRestarts == 2      \* manager specification: service worker restarts
MaxQueries == 1        \* query specification: getActivityLog messages in total

(***************************************************************************)
(* Program constants                                                       *)
(***************************************************************************)
maxSize == 100            \* new ActivityLog(100)
RECENT_SAVED == 50        \* this.buffer.getRecent(50)
FAILURE_THRESHOLD == 5    \* this.FAILURE_THRESHOLD

Undefined == "undefined"  \* a hole of a JS array / an absent value
NoSnapshot == [present |-> FALSE, value |-> <<>>] \* storage holds no 'activityLog' key
StoredValue(v) == [present |-> TRUE, value |-> v]  \* storage holds v under the key

Min(a, b) == IF a < b THEN a ELSE b
Max(a, b) == IF a > b THEN a ELSE b

(***************************************************************************)
(* JS array primitives, 0-based as in the source                           *)
(***************************************************************************)
\* arr[i] = v
ArraySet(arr, i, v) ==
  [k \in 1..Max(Len(arr), i + 1) |->
     IF k = i + 1 THEN v ELSE IF k <= Len(arr) THEN arr[k] ELSE Undefined]

\* relative index of slice(): negative counts from the end, both clamped
SliceIndex(arr, i) == IF i < 0 THEN Max(Len(arr) + i, 0) ELSE Min(i, Len(arr))

\* arr.slice(from, to)
ArraySlice(arr, from, to) ==
  LET a == SliceIndex(arr, from)
      b == SliceIndex(arr, to)
  IN  IF a >= b THEN <<>> ELSE [k \in 1..(b - a) |-> arr[a + k]]

\* arr.slice(from)
ArraySliceFrom(arr, from) == ArraySlice(arr, from, Len(arr))

(***************************************************************************)
(* class ActivityLog                                                       *)
(***************************************************************************)
\* a buffer value: the three fields of an ActivityLog
Buf(e, w, s) == [entries |-> e, writeIndex |-> w, size |-> s]

EmptyBuf == Buf(<<>>, 0, 0)

\* add(entry) with the size counted up without the capacity test
BufAddNoCap(b, entry) ==
  Buf(ArraySet(b.entries, b.writeIndex, entry),
      (b.writeIndex + 1) % maxSize,
      b.size + 1)

\* add(entry)
BufAdd(b, entry) ==
  Buf(ArraySet(b.entries, b.writeIndex, entry),
      (b.writeIndex + 1) % maxSize,
      IF b.size < maxSize THEN b.size + 1 ELSE b.size)

\* getAll()
BufGetAll(b) ==
  IF b.size < maxSize
    THEN ArraySlice(b.entries, 0, b.size)
    ELSE ArraySliceFrom(b.entries, b.writeIndex) \o ArraySlice(b.entries, 0, b.writeIndex)

\* getRecent(count): all.slice(-count); -0 is 0, so getRecent(0) is the whole array
BufGetRecent(b, count) == ArraySliceFrom(BufGetAll(b), 0 - count)

\* the buffer of the running service worker
buffer == Buf(entries, writeIndex, size)

getAll == BufGetAll(buffer)

\* add a sequence of entries one after the other (forEach(entry => add(entry)))
RECURSIVE BufAddAll(_, _)
BufAddAll(b, es) ==
  IF es = <<>> THEN b ELSE BufAddAll(BufAdd(b, Head(es)), Tail(es))

(***************************************************************************)
(* JS Map / object with integer keys: a function on the keys present        *)
(***************************************************************************)
EmptyMap == << >>
MapSet(m, k, v) == [x \in (DOMAIN m) \cup {k} |-> IF x = k THEN v ELSE m[x]]
MapDelete(m, k) == [x \in (DOMAIN m) \ {k} |-> m[x]]

(***************************************************************************)
(* class ActivityLogManager                                                *)
(***************************************************************************)
Levels == {"info", "success", "warning", "error"}

\* what callers pass to log(level, category, message, details, metadata)
LogInputs ==
  { [level |-> "info", category |-> "monitoring", message |-> "Monitoring started",
     details |-> [tabId |-> 1, url |-> "https://a.example/x"]],
    [level |-> "error", category |-> "extraction",
     message |-> "Content extraction failed after all retries",
     details |-> [tabId |-> 2, url |-> "https://b.example/y"]] }

\* calls of log() about a webhook, the URL in metadata.webhookUrl (one with a
\* long path and a query, one with a short path and a port, one without a
\* path, a string that is no URL, an empty one) or in details
WebhookLogInputs ==
  { [level |-> "success", category |-> "webhook",
     message |-> "Content sent to webhook successfully",
     details |-> [tabId |-> 1, url |-> "https://a.example/x"],
     metadata |-> [webhookUrl |-> u]] : u \in {"https://n8n.example/webhook/0123456789abcdef?token=t0p",
              "https://n8n.example:5678/hook/key1", "http://n8n.example",
              "n8n.example/hook", ""} }
  \cup
  { [level |-> "error", category |-> "webhook", message |-> "Webhook request failed",
     details |-> [tabId |-> 1, url |-> "https://a.example/x", webhookUrl |-> "https://n8n.example/webhook/0123456789abcdef?token=t0p"],
     metadata |-> [error |-> "HTTP 500"]] }

\* calls of log() with the URL a webhook failed on: an https URL with a long
\* path, one with a short path, a mailto: URL and a string that is no URL
TripLogInputs ==
  { [level |-> "error", category |-> "webhook", message |-> "Webhook request failed",
     details |-> [tabId |-> 1, url |-> "https://a.example/x"],
     metadata |-> [webhookUrl |-> u]] : u \in {"https://n8n.example/webhook/0123456789abcdef?token=t0p",
              "https://n8n.example:5678/hook/key1", "mailto:hook@n8n.example",
              "n8n.example/hook"} }

\* the input of the n-th call in the ring specification
LogInputAt(n) ==
  IF n % 2 = 1
    THEN [level |-> "info", category |-> "monitoring", message |-> "Monitoring started",
          details |-> [tabId |-> 1, url |-> "https://a.example/x"]]
    ELSE [level |-> "error", category |-> "extraction",
          message |-> "Content extraction failed after all retries",
          details |-> [tabId |-> 2, url |-> "https://b.example/y"]]

\* obj[k] of a JS object: undefined when the key is absent
Field(obj, k) == IF k \in DOMAIN obj THEN obj[k] ELSE Undefined

\* the first position from k on of a character of chars in s, else Len(s) + 1
FirstOf(s, chars, k) ==
  LET hits == {j \in k..Len(s) : SubSeq(s, j, j) \in chars}
  IN  IF hits = {} THEN Len(s) + 1 ELSE CHOOSE j \in hits : \A i \in hits : j <= i

\* the characters of the schemes of the model
SchemeChars == {"a", "e", "h", "i", "l", "m", "o", "p", "s", "t"}

\* the schemes whose URLs need "//" and a host
SpecialSchemes == {"http:", "https:", "ws:", "wss:", "ftp:", "file:"}

\* new URL(url) for a URL of a scheme that is not special, as "mailto:": after
\* "//" comes an authority (userinfo up to the last "@", host, port) and a
\* path, else the rest up to "?" or "#" is the path and there is no host
ParseOtherUrl(url) ==
  LET colon == FirstOf(url, {":"}, 1)
      isScheme == /\ colon > 1
                  /\ colon <= Len(url)
                  /\ \A k \in 1..(colon - 1) : SubSeq(url, k, k) \in SchemeChars
                  /\ SubSeq(url, 1, colon) \notin SpecialSchemes
      authority == colon + 2 <= Len(url) /\ SubSeq(url, colon + 1, colon + 2) = "//"
      from == IF authority THEN colon + 3 ELSE colon + 1
      endAuth == IF authority THEN FirstOf(url, {"/", "?", "#"}, from) ELSE from
      ats == {k \in from..(endAuth - 1) : SubSeq(url, k, k) = "@"}
      hostFrom == IF ats = {} THEN from ELSE (CHOOSE k \in ats : \A j \in ats : j <= k) + 1
      endHost == Min(FirstOf(url, {":"}, hostFrom), endAuth)
      endPath == FirstOf(url, {"?", "#"}, endAuth)
  IN  IF ~isScheme
        THEN [ok |-> FALSE, protocol |-> "", hostname |-> "", pathname |-> ""]
        ELSE [ok |-> TRUE, protocol |-> SubSeq(url, 1, colon),
              hostname |-> SubSeq(url, hostFrom, endHost - 1),
              pathname |-> SubSeq(url, endAuth, endPath - 1)]

\* new URL(url) for the http and https URLs of the model (no userinfo):
\* protocol, hostname (the authority without its port) and pathname ("/" when
\* the URL has none); ok is false where the constructor throws
ParseUrl(url) ==
  LET scheme == IF Len(url) >= 8 /\ SubSeq(url, 1, 8) = "https://" THEN "https:"
                ELSE IF Len(url) >= 7 /\ SubSeq(url, 1, 7) = "http://" THEN "http:"
                ELSE ""
      from == Len(scheme) + 3
      endAuth == FirstOf(url, {"/", "?", "#"}, from)
      endHost == Min(FirstOf(url, {":"}, from), endAuth)
      endPath == FirstOf(url, {"?", "#"}, endAuth)
      path == SubSeq(url, endAuth, endPath - 1)
  IN  IF scheme = "" THEN ParseOtherUrl(url)
      ELSE IF endHost = from
        THEN [ok |-> FALSE, protocol |-> "", hostname |-> "", pathname |-> ""]
        ELSE [ok |-> TRUE, protocol |-> scheme,
              hostname |-> SubSeq(url, from, endHost - 1),
              pathname |-> IF path = "" THEN "/" ELSE path]

\* maskUrl(url)
MaskUrl(url) ==
  IF url = Undefined \/ url = "" THEN Undefined
  ELSE LET urlObj == ParseUrl(url)
           pathPreview == IF Len(urlObj.pathname) > 20
                            THEN SubSeq(urlObj.pathname, 1, 20) \o "..."
                            ELSE urlObj.pathname
       IN  IF urlObj.ok THEN urlObj.protocol \o "//" \o urlObj.hostname \o pathPreview
           ELSE "***"

\* the metadata of the entry: the caller's, with webhookUrl masked, or
\* undefined when the caller passes none
EntryMetadata(metadata) ==
  [k \in (DOMAIN metadata) \cup {"webhookUrl"} |->
     IF k = "webhookUrl"
       THEN IF Field(metadata, "webhookUrl") \in {Undefined, ""} THEN Undefined
            ELSE MaskUrl(metadata.webhookUrl)
       ELSE metadata[k]]

\* the entry object built by log(); a call without metadata has the default {}
MakeEntry(id, now, in) ==
  [id |-> id, timestamp |-> now, level |-> in.level, category |-> in.category,
   message |-> in.message, details |-> in.details,
   metadata |-> EntryMetadata(IF "metadata" \in DOMAIN in THEN in.metadata ELSE << >>),
   tabId |-> in.details.tabId, url |-> in.details.url]

\* chrome.storage keeps the JSON form of a value: keys whose value is undefined
\* are dropped
StoredObject(m) == [k \in {k \in DOMAIN m : m[k] # Undefined} |-> m[k]]

StoredEntry(e) == [e EXCEPT !.metadata = StoredObject(e.metadata)]

StoredEntries(es) == [k \in 1..Len(es) |-> StoredEntry(es[k])]

\* saveToStorage(): the value handed to chrome.storage.local.set
Snapshot(b) == StoredEntries(BufGetRecent(b, RECENT_SAVED))

\* loadFromStorage(), after its get has resolved with the value v
Loaded(b, v) == IF ~v.present THEN b ELSE BufAddAll(b, v.value)

\* the last n elements of a sequence
LastN(s, n) == SubSeq(s, Max(1, Len(s) - n + 1), Len(s))

SetBuffer(b) ==
  /\ entries' = b.entries
  /\ writeIndex' = b.writeIndex
  /\ size' = b.size

\* log(level, category, message, details, metadata): the entry is added and
\* saveToStorage() issues its set before log() returns
Log(in) ==
  /\ nextId <= MaxLogged
  /\ LET entry == MakeEntry(nextId, clock, in)
         b == BufAdd(buffer, entry)
     IN  /\ SetBuffer(b)
         /\ activityLogStore' = StoredValue(Snapshot(b))
         /\ added' = Append(added, entry)
         /\ history' = Append(history, entry)
  /\ nextId' = nextId + 1
  /\ clock' = clock + 1
  /\ UNCHANGED <<failureCounters, loadPending, loadValue, expected, restarts, recorded>>
  /\ UNCHANGED monVars

\* the continuation of loadFromStorage()
LoadFromStorageDone ==
  /\ loadPending
  /\ SetBuffer(Loaded(buffer, loadValue))
  /\ added' = added \o loadValue.value
  /\ loadPending' = FALSE
  /\ UNCHANGED <<failureCounters, activityLogStore, loadValue, nextId, clock,
                 history, expected, restarts, recorded>>
  /\ UNCHANGED monVars

\* the service worker is terminated and started again: the script is evaluated
\* anew, new ActivityLogManager() starts loadFromStorage()
RestartWorker ==
  /\ restarts < MaxRestarts
  /\ SetBuffer(EmptyBuf)
  /\ failureCounters' = << >>
  /\ loadPending' = TRUE
  /\ loadValue' = activityLogStore
  /\ added' = <<>>
  /\ expected' = LastN(history, RECENT_SAVED)
  /\ restarts' = restarts + 1
  /\ recorded' = [t \in DOMAIN recorded |-> 0]
  /\ UNCHANGED <<activityLogStore, nextId, clock, history>>
  /\ UNCHANGED monVars

\* clear()
Clear ==
  /\ SetBuffer(EmptyBuf)
  /\ failureCounters' = << >>
  /\ activityLogStore' = NoSnapshot
  /\ added' = <<>>
  /\ history' = <<>>
  /\ expected' = <<>>
  /\ recorded' = [t \in DOMAIN recorded |-> 0]
  /\ UNCHANGED <<loadPending, loadValue, nextId, clock, restarts>>
  /\ UNCHANGED monVars

(***************************************************************************)
(* The ring buffer alone: ActivityLog.add / getAll / clear                 *)
(***************************************************************************)
\* buffer.add(entry) with a fresh entry
RingAdd ==
  /\ nextId <= MaxAdds
  /\ LET entry == MakeEntry(nextId, clock, LogInputAt(nextId))
     IN  /\ SetBuffer(BufAdd(buffer, entry))
         /\ added' = Append(added, entry)
  /\ nextId' = nextId + 1
  /\ clock' = clock + 1
  /\ UNCHANGED <<failureCounters, activityLogStore, loadPending, loadValue,
                 history, expected, restarts, recorded>>
  /\ UNCHANGED monVars

\* buffer.clear()
RingClear ==
  /\ size > 0
  /\ SetBuffer(EmptyBuf)
  /\ added' = <<>>
  /\ UNCHANGED <<failureCounters, activityLogStore, loadPending, loadValue, nextId,
                 clock, history, expected, restarts, recorded>>
  /\ UNCHANGED monVars

(***************************************************************************)
(* The failure counters: recordFailure / recordSuccess / getFailureCount   *)
(***************************************************************************)
\* getFailureCount(tabId): this.failureCounters.get(tabId) || 0
GetFailureCount(counters, tabId) ==
  IF tabId \in DOMAIN counters THEN counters[tabId] ELSE 0

\* a recordSuccess that forgets the failures of every tab
AfterRecordSuccessOfAll(counters, tabId) == EmptyMap

\* the counters after recordSuccess(tabId)
AfterRecordSuccess(counters, tabId) ==
  IF tabId \in DOMAIN counters THEN MapDelete(counters, tabId) ELSE counters

\* recordFailure(tabId), with the count it returns
RecordFailure(tabId) ==
  LET count == GetFailureCount(failureCounters, tabId) + 1
  IN  /\ commands > 0
      /\ commands' = commands - 1
      /\ failureCounters' = MapSet(failureCounters, tabId, count)
      /\ recorded' = [recorded EXCEPT ![tabId] = @ + 1]
      /\ responses' = Append(responses,
           [action |-> "recordFailure", tab |-> tabId, returned |-> count,
            calls |-> recorded[tabId] + 1])
      /\ UNCHANGED <<entries, writeIndex, size, activityLogStore, loadPending, loadValue,
                     nextId, clock, added, history, expected, restarts>>
      /\ UNCHANGED <<tabs, page, monitoringConfig, webhookUrl, monitoringIntervals,
                     timers, nextTimer, tasks, storeQ, posts, stopDone, exhausted,
                     outcomes, late, ticks>>

\* recordSuccess(tabId)
RecordSuccess(tabId) ==
  /\ commands > 0
  /\ commands' = commands - 1
  /\ failureCounters' = AfterRecordSuccess(failureCounters, tabId)
  /\ recorded' = [recorded EXCEPT ![tabId] = 0]
  /\ UNCHANGED <<entries, writeIndex, size, activityLogStore, loadPending, loadValue,
                 nextId, clock, added, history, expected, restarts>>
  /\ UNCHANGED <<tabs, page, monitoringConfig, webhookUrl, monitoringIntervals,
                 timers, nextTimer, tasks, storeQ, posts, responses, stopDone,
                 exhausted, outcomes, late, ticks>>
(***************************************************************************)
(* Monitoring service: values                                              *)
(***************************************************************************)
MaxTasks == 3         \* service specification: asynchronous calls in flight at once
MaxTicks == 1         \* service specification: interval ticks in total
MaxCommands == 2      \* service specification: start and stop commands in total
MaxCycleTasks == 2    \* cycle specification: asynchronous calls in flight at once
MaxCycleTicks == 6    \* cycle specification: interval ticks in total
MaxRebindCommands == 2  \* rebind specification: URL changes and startups in total
MaxHashTicks == 2     \* hash specification: interval ticks in total
MaxSends == 2         \* webhook specification: send now commands in total
MaxSendTasks == 2     \* webhook specification: asynchronous calls in flight at once
MaxRestoreTasks == 4  \* restore specification: asynchronous calls in flight at once
MaxStartups == 1      \* restore specification: startups in total
MaxNows == 2          \* send now specification: Send Now clicks in total
MaxNowTasks == 3      \* send now specification: asynchronous calls in flight at once
MaxNavigations == 2   \* navigation specification: URL changes of the tab in total
MaxNavTicks == 2      \* navigation specification: interval ticks in total
MaxNavTasks == 3      \* navigation specification: asynchronous calls in flight at once
MaxExtracts == 2      \* extraction specification: calls of extractBlockContent in total
MaxPairCommands == 2  \* two-tab specification: start and stop commands in total
MaxPairTasks == 4     \* two-tab specification: asynchronous calls in flight at once
MaxRecords == 6       \* failure-counter specification: recordFailure and recordSuccess calls in total

maxRetries == 10            \* const maxRetries = 10
minContentLength == 100     \* const minContentLength = 100
DEFAULT_INTERVAL == 30000   \* configData.refreshInterval || 30000

TabIds == 1..4
Slots == DOMAIN tasks

Null == "null"                        \* null, undefined or an absent key
SENTINEL == "YOUR_N8N_WEBHOOK_URL"
NoHash == <<>>                        \* no lastContentHash

\* the URL strings of the model and what new URL(url) makes of them
UrlA == "https://a.example/x"
UrlASlash == "https://a.example/x/"
UrlAHash == "https://a.example/x#top"
UrlB == "https://b.example/y"

\* normalizeUrl(url): fragment dropped, trailing slashes removed; a string that
\* does not parse is returned as it is
NormalizeUrl(url) ==
  CASE url = "" -> ""
    [] url = UrlASlash -> UrlA
    [] url = UrlAHash -> UrlA
    [] OTHER -> url

\* isValidWebPage(url)
IsValidWebPage(url) == url \in {UrlA, UrlASlash, UrlAHash, UrlB}

(***************************************************************************)
(* Page content and the content script                                     *)
(***************************************************************************)
\* s.trimStart() and s.trimEnd(): the white space among the characters of the
\* model is the blank, the tab and the line feed
RECURSIVE TrimStart(_)
TrimStart(s) ==
  IF s # "" /\ SubSeq(s, 1, 1) \in {" ", "\t", "\n"} THEN TrimStart(SubSeq(s, 2, Len(s))) ELSE s

RECURSIVE TrimEnd(_)
TrimEnd(s) ==
  IF s # "" /\ SubSeq(s, Len(s), Len(s)) \in {" ", "\t", "\n"}
    THEN TrimEnd(SubSeq(s, 1, Len(s) - 1)) ELSE s

\* s.trim()
Trim(s) == TrimEnd(TrimStart(s))

\* s.includes(sub)
Includes(s, sub) ==
  \E k \in 1..(Len(s) - Len(sub) + 1) : SubSeq(s, k, k + Len(sub) - 1) = sub

\* s.split('\n').map(line => line.trim()).filter(line => line.length > 0).length
RECURSIVE NonEmptyLines(_)
NonEmptyLines(s) ==
  LET nl == FirstOf(s, {"\n"}, 1)
      first == IF Trim(SubSeq(s, 1, nl - 1)) = "" THEN 0 ELSE 1
  IN  IF nl > Len(s) THEN first ELSE first + NonEmptyLines(SubSeq(s, nl + 1, Len(s)))

\* a trimmed content string: what decides the code's tests on it
Content(body, len, markers, lines) ==
  [body |-> body, len |-> len, markers |-> markers, lines |-> lines]

NoContent == Content("", 0, {}, 0)
ContentA == Content("A", 100, {}, 3)
ContentB == Content("B", 600, {}, 12)
ContentLoading == Content("L", 500, {"Loading..."}, 8)

\* the block of a page, the element with the id c: missing, or there with the
\* content given by what the code tests on it, or by its innerHTML
PageMissing == [found |-> FALSE, content |-> NoContent]
PageOf(c) == [found |-> TRUE, content |-> c]
PageOfHtml(html) == [found |-> TRUE, html |-> html]

\* the substrings and patterns of loadingIndicators
LoadingIndicators ==
  {"NaN", "undefined", "Loading...", "loading", "undefined items", "of NaN pages"}

\* content.trim() of the element's innerHTML (or innerText) and what the
\* tests of extractBlockContent find in it
TrimmedContent(pg) ==
  IF "html" \in DOMAIN pg
    THEN LET trimmedContent == Trim(pg.html)
         IN  Content(trimmedContent, Len(trimmedContent),
                     {m \in LoadingIndicators : Includes(trimmedContent, m)},
                     NonEmptyLines(trimmedContent))
    ELSE pg.content

\* document.querySelector(selector) on the page: "#" alone is no selector
\* (a SyntaxError is thrown), "#c" finds the block, anything else nothing
QuerySelector(pg, selector) ==
  IF Trim(selector) = "#" THEN [threw |-> TRUE, found |-> FALSE]
  ELSE [threw |-> FALSE, found |-> pg.found /\ Trim(selector) = "#c"]

ExtractFailure(error) == [success |-> FALSE, content |-> NoContent, error |-> error]

\* extractBlockContent refusing content of minContentLength characters too
ExtractBlockContentAboveMinimum(pg, selector, contentType, validateContent) ==
  LET element == QuerySelector(pg, selector)
      trimmedContent == TrimmedContent(pg)
  IN  IF selector = "" \/ Trim(selector) = "" THEN ExtractFailure("No selector provided")
      ELSE IF element.threw THEN ExtractFailure("is not a valid selector")
      ELSE IF ~element.found THEN ExtractFailure("Element not found")
      ELSE IF validateContent /\ trimmedContent.len <= minContentLength
        THEN ExtractFailure("Content too short")
      ELSE IF validateContent /\ trimmedContent.markers \cap LoadingIndicators # {}
        THEN ExtractFailure("Page still loading")
      ELSE IF validateContent /\ contentType = "text" /\ trimmedContent.lines < 3
        THEN ExtractFailure("Content appears incomplete")
      ELSE [success |-> TRUE, content |-> trimmedContent, error |-> "",
            selector |-> selector]

\* extractBlockContent with the selector trimmed before it is returned
ExtractBlockContentTrimmedSelector(pg, selector, contentType, validateContent) ==
  LET element == QuerySelector(pg, selector)
      trimmedContent == TrimmedContent(pg)
  IN  IF selector = "" \/ Trim(selector) = "" THEN ExtractFailure("No selector provided")
      ELSE IF element.threw THEN ExtractFailure("is not a valid selector")
      ELSE IF ~element.found THEN ExtractFailure("Element not found")
      ELSE IF validateContent /\ trimmedContent.len < minContentLength
        THEN ExtractFailure("Content too short")
      ELSE IF validateContent /\ trimmedContent.markers \cap LoadingIndicators # {}
        THEN ExtractFailure("Page still loading")
      ELSE IF validateContent /\ contentType = "text" /\ trimmedContent.lines < 3
        THEN ExtractFailure("Content appears incomplete")
      ELSE [success |-> TRUE, content |-> trimmedContent, error |-> "",
            selector |-> Trim(selector)]

\* extractBlockContent(selector, contentType, validateContent) on the page pg;
\* what is thrown inside is caught and returned as error.message
ExtractBlockContent(pg, selector, contentType, validateContent) ==
  LET element == QuerySelector(pg, selector)
      trimmedContent == TrimmedContent(pg)
  IN  IF selector = "" \/ Trim(selector) = "" THEN ExtractFailure("No selector provided")
      ELSE IF element.threw THEN ExtractFailure("is not a valid selector")
      ELSE IF ~element.found THEN ExtractFailure("Element not found")
      ELSE IF validateContent /\ trimmedContent.len < minContentLength
        THEN ExtractFailure("Content too short")
      ELSE IF validateContent /\ trimmedContent.markers \cap LoadingIndicators # {}
        THEN ExtractFailure("Page still loading")
      ELSE IF validateContent /\ contentType = "text" /\ trimmedContent.lines < 3
        THEN ExtractFailure("Content appears incomplete")
      ELSE [success |-> TRUE, content |-> trimmedContent, error |-> "",
            selector |-> selector]

\* tryExtract's own tests of a successful response
ResponseAccepted(r) ==
  /\ r.success
  /\ r.content.len >= minContentLength
  /\ r.content.markers \cap {"NaN", "undefined", "Loading..."} = {}

\* generateContentHash(content): SHA-256 of the string, taken as collision free
GenerateContentHash(c) == <<"sha256", c.body>>

(***************************************************************************)
(* Monitoring configurations                                               *)
(***************************************************************************)
Config(sel, interval, cd, url, hook) ==
  [present |-> TRUE, selector |-> sel, refreshInterval |-> interval,
   changeDetection |-> cd, url |-> url, initialUrl |-> "", tabId |-> 0,
   webhookUrl |-> hook, enabled |-> FALSE, lastContentHash |-> NoHash]

\* the value of configs[tabId] || null when the key is absent
NoConfig == [Config("", 0, FALSE, "", Null) EXCEPT !.present = FALSE]

\* getMonitoringConfig(tabId) on the stored object
GetMonitoringConfig(configs, tabId) ==
  IF tabId \in DOMAIN configs THEN configs[tabId] ELSE NoConfig

\* !webhookUrl || typeof webhookUrl !== 'string' || !webhookUrl.trim()
IsBlank(v) == v = Null \/ v = "" \/ Trim(v) = ""

\* what the popup, the monitor page and handleStartMonitoring make of the form
StartInputs ==
  { [selector |-> "#c", refreshInterval |-> 5000, changeDetection |-> TRUE,
     webhookUrl |-> Null],
    [selector |-> "#c", refreshInterval |-> 0, changeDetection |-> FALSE,
     webhookUrl |-> "https://tab.example/hook"],
    [selector |-> "", refreshInterval |-> 5000, changeDetection |-> TRUE,
     webhookUrl |-> "   "] }

\* the config object handleStartMonitoring builds from the request
RequestConfig(in, url) ==
  Config(in.selector,
         IF in.refreshInterval = 0 THEN DEFAULT_INTERVAL ELSE in.refreshInterval,
         in.changeDetection,
         url,
         IF IsBlank(in.webhookUrl) THEN Null ELSE Trim(in.webhookUrl))

\* startMonitoring's validation: !config.selector || !config.refreshInterval
InvalidConfig(cfg) == cfg.selector = "" \/ cfg.refreshInterval = 0

\* the object startMonitoring hands to saveMonitoringConfig
StartedConfig(cfg, tabId, tabInfo) ==
  LET resolvedUrl == IF cfg.url # "" THEN cfg.url
                     ELSE IF tabInfo.open THEN tabInfo.url ELSE ""
  IN  [cfg EXCEPT !.present = TRUE, !.enabled = TRUE, !.url = resolvedUrl,
                  !.initialUrl = resolvedUrl, !.tabId = tabId]

(***************************************************************************)
(* Webhook resolution of sendContentToWebhook                              *)
(***************************************************************************)
NoWebhook == [ok |-> FALSE, url |-> Null, source |-> "none", needGlobal |-> FALSE,
              message |-> "No webhook URL set"]

\* the override and the tab's webhook, tried in the order tab, override
ResolveLocalTabFirst(override, cfg) ==
  IF ~IsBlank(cfg.webhookUrl)
    THEN IF cfg.webhookUrl = SENTINEL
           THEN [NoWebhook EXCEPT !.source = "tab", !.message = "Invalid webhook URL configured"]
           ELSE [NoWebhook EXCEPT !.ok = TRUE, !.url = cfg.webhookUrl, !.source = "tab", !.message = ""]
  ELSE IF ~IsBlank(override)
    THEN IF override = SENTINEL
           THEN [NoWebhook EXCEPT !.source = "override", !.message = "Invalid webhook URL"]
           ELSE [NoWebhook EXCEPT !.ok = TRUE, !.url = override, !.source = "override", !.message = ""]
  ELSE [NoWebhook EXCEPT !.needGlobal = TRUE]

\* sendContentToWebhook up to the read of the global webhook: the override,
\* then the tab's webhook; needGlobal when both are blank
ResolveLocal(override, cfg) ==
  IF ~IsBlank(override)
    THEN IF override = SENTINEL
           THEN [NoWebhook EXCEPT !.source = "override", !.message = "Invalid webhook URL"]
           ELSE [NoWebhook EXCEPT !.ok = TRUE, !.url = override, !.source = "override", !.message = ""]
  ELSE IF ~IsBlank(cfg.webhookUrl)
    THEN IF cfg.webhookUrl = SENTINEL
           THEN [NoWebhook EXCEPT !.source = "tab", !.message = "Invalid webhook URL configured"]
           ELSE [NoWebhook EXCEPT !.ok = TRUE, !.url = cfg.webhookUrl, !.source = "tab", !.message = ""]
  ELSE [NoWebhook EXCEPT !.needGlobal = TRUE]

\* the global webhook with the sentinel accepted like any other string
ResolveGlobalNoSentinel(global) ==
  IF IsBlank(global)
    THEN NoWebhook
    ELSE [NoWebhook EXCEPT !.ok = TRUE, !.url = global, !.source = "global", !.message = ""]

\* sendContentToWebhook after the read of the global webhook
ResolveGlobal(global) ==
  IF IsBlank(global) \/ global = SENTINEL
    THEN NoWebhook
    ELSE [NoWebhook EXCEPT !.ok = TRUE, !.url = global, !.source = "global", !.message = ""]

\* hashes compared for every config, whatever its changeDetection
DetectionAlways(config) == config.present

\* hasContentChanged compares hashes: a config is there and has changeDetection
DetectionOn(config) == config.present /\ config.changeDetection

\* the fetch() with the content read from the page anew
PostOfLivePage(t, hook) ==
  [to |-> hook, tabId |-> t.tab, content |-> page[t.tab].content, url |-> t.url,
   changeDetected |-> t.changed,
   refreshInterval |-> IF t.cfg.present /\ t.cfg.refreshInterval # 0
                         THEN t.cfg.refreshInterval ELSE DEFAULT_INTERVAL,
   metaWebhookUrl |-> hook,
   override |-> t.override, tabHook |-> t.cfg.webhookUrl, origin |-> t.origin,
   detection |-> DetectionOn(t.seen), stored |-> t.stored]

\* the target and payload of the fetch() of sendContentToWebhook, with the
\* override and the tab's webhook the call had before it, whether
\* hasContentChanged compared hashes for it and the hash it stored
Post(t, hook) ==
  [to |-> hook, tabId |-> t.tab, content |-> t.data, url |-> t.url,
   changeDetected |-> t.changed,
   refreshInterval |-> IF t.cfg.present /\ t.cfg.refreshInterval # 0
                         THEN t.cfg.refreshInterval ELSE DEFAULT_INTERVAL,
   metaWebhookUrl |-> hook,
   override |-> t.override, tabHook |-> t.cfg.webhookUrl, origin |-> t.origin,
   detection |-> DetectionOn(t.seen), stored |-> t.stored]

\* what fetch() can come back with: a status, or a rejection
FetchOutcomes == {200, 299, 300, 404, 500, 0}

\* the result with every response that arrived taken as a success
SendResultAnyStatus(outcome) ==
  IF outcome = 0 THEN [success |-> FALSE, message |-> "Network error"]
  ELSE [success |-> TRUE, message |-> "Content sent successfully"]

\* the result object of sendContentToWebhook for a fetch outcome (0: rejected):
\* response.ok is a status of 200 to 299
SendResult(outcome) ==
  IF outcome = 0 THEN [success |-> FALSE, message |-> "Network error"]
  ELSE IF outcome >= 200 /\ outcome <= 299
    THEN [success |-> TRUE, message |-> "Content sent successfully"]
    ELSE [success |-> FALSE, message |-> "Webhook failed"]

(***************************************************************************)
(* Tasks: the asynchronous calls in flight                                 *)
(***************************************************************************)
Idle ==
  [kind |-> "idle", tab |-> 0, pc |-> "", origin |-> "", cfg |-> NoConfig,
   seen |-> NoConfig, snap |-> EmptyMap, data |-> NoContent, n |-> 0,
   parent |-> 0, url |-> "", changed |-> FALSE, keys |-> <<>>, web |-> {},
   target |-> 0, override |-> Null, hook |-> Null, cancelled |-> FALSE,
   wasRunning |-> FALSE, liveChanged |-> FALSE, stored |-> NoHash]

FreeSlots == {i \in Slots : tasks[i].kind = "idle"}

\* the free slot a new call takes, and the one a second new call takes
Slot1 == CHOOSE i \in FreeSlots : \A j \in FreeSlots : i <= j
Slot2 == CHOOSE i \in FreeSlots \ {Slot1} : \A j \in FreeSlots \ {Slot1} : i <= j

InFlight(kind, tabId) == {i \in Slots : tasks[i].kind = kind /\ tasks[i].tab = tabId}

\* the continuation of slot i's storage call may run
StoreReady(i) == storeQ # <<>> /\ Head(storeQ) = i

UnchangedEnv == UNCHANGED <<tabs, page, webhookUrl>>

\* a sendResponse() of a command handler, with what the command met
Response(action, tabId, success, message) ==
  [action |-> action, tab |-> tabId, success |-> success, message |-> message,
   wasRunning |-> FALSE, liveChanged |-> FALSE, override |-> Null,
   tabHook |-> Null, posted |-> FALSE, status |-> 0]

(***************************************************************************)
(* stopMonitoring                                                          *)
(***************************************************************************)
\* clearInterval(intervalId) when monitoringIntervals has the tab
StopTimers(tabId) ==
  IF tabId \in DOMAIN monitoringIntervals
    THEN {t \in timers : t.id # monitoringIntervals[tabId]}
    ELSE timers

\* monitoringIntervals.delete(tabId)
StopIntervals(tabId) == MapDelete(monitoringIntervals, tabId)

\* the call of stopMonitoring up to the get of removeMonitoringConfig
StopTask(tabId, origin, parent) ==
  [Idle EXCEPT !.kind = "stop", !.tab = tabId, !.pc = "rm_get", !.origin = origin,
               !.parent = parent, !.snap = monitoringConfig,
               !.wasRunning = tabId \in DOMAIN monitoringIntervals,
               !.liveChanged = (StopIntervals(tabId) # monitoringIntervals
                                \/ StopTimers(tabId) # timers)]

\* the cycles of the tab, and what they started, that a stop finds in flight
Cancel(ts, tabId) ==
  [i \in Slots |-> IF ts[i].tab = tabId /\ ts[i].origin = "cycle"
                     THEN [ts[i] EXCEPT !.cancelled = TRUE]
                     ELSE ts[i]]

\* handleStopMonitoring answering an error for a tab that was not monitored
StopResultNotFound(wasRunning) ==
  IF wasRunning THEN [success |-> TRUE, message |-> "Monitoring stopped"]
  ELSE [success |-> FALSE, message |-> "target_not_found"]

\* what handleStopMonitoring answers after stopMonitoring returned
StopResult(wasRunning) == [success |-> TRUE, message |-> "Monitoring stopped"]

\* the message handler of "stopMonitoring"
HandleStopMonitoring(tabId) ==
  /\ commands > 0
  /\ FreeSlots # {}
  /\ tasks' = [Cancel(tasks, tabId) EXCEPT ![Slot1] = StopTask(tabId, "command", 0)]
  /\ storeQ' = Append(storeQ, Slot1)
  /\ monitoringIntervals' = StopIntervals(tabId)
  /\ timers' = StopTimers(tabId)
  /\ commands' = commands - 1
  /\ UnchangedEnv
  /\ UNCHANGED <<monitoringConfig, nextTimer, posts, responses, stopDone, exhausted,
                 outcomes, late, ticks>>
  /\ UNCHANGED logVars

\* removeMonitoringConfig: the get resolved; delete configs[tabId] and set
StopRemoveWrite(i) ==
  /\ tasks[i].pc = "rm_get"
  /\ StoreReady(i)
  /\ monitoringConfig' = MapDelete(tasks[i].snap, tasks[i].tab)
  /\ tasks' = [tasks EXCEPT ![i].pc = "rm_set"]
  /\ storeQ' = Append(Tail(storeQ), i)
  /\ UnchangedEnv
  /\ UNCHANGED <<monitoringIntervals, timers, nextTimer, posts, responses, stopDone,
                 exhausted, outcomes, late, ticks, commands>>
  /\ UNCHANGED logVars

\* the set resolved: stopMonitoring returns; its awaiting caller goes on
StopFinish(i) ==
  /\ tasks[i].pc = "rm_set"
  /\ StoreReady(i)
  /\ storeQ' = Tail(storeQ)
  /\ tasks' = IF tasks[i].parent # 0
                THEN [tasks EXCEPT ![i] = Idle, ![tasks[i].parent] = Idle]
                ELSE [tasks EXCEPT ![i] = Idle]
  /\ responses' =
       IF tasks[i].origin = "command"
         THEN Append(responses,
                [Response("stopMonitoring", tasks[i].tab,
                          StopResult(tasks[i].wasRunning).success,
                          StopResult(tasks[i].wasRunning).message)
                   EXCEPT !.wasRunning = tasks[i].wasRunning,
                          !.liveChanged = tasks[i].liveChanged])
         ELSE responses
  /\ stopDone' = IF tasks[i].origin # "start" /\ InFlight("start", tasks[i].tab) = {}
                   THEN stopDone \cup {tasks[i].tab}
                   ELSE stopDone
  /\ UnchangedEnv
  /\ UNCHANGED <<monitoringConfig, monitoringIntervals, timers, nextTimer, posts,
                 exhausted, outcomes, late, ticks, commands>>
  /\ UNCHANGED logVars

(***************************************************************************)
(* startMonitoring                                                         *)
(***************************************************************************)
\* the message handler of "startMonitoring" up to startMonitoring's tabs.get:
\* the un-awaited stopMonitoring(tabId), then the validation
HandleStartMonitoring(tabId, in) ==
  LET config == RequestConfig(in, tabs[tabId].url)
      s1 == Slot1
      s2 == Slot2
  IN  /\ commands > 0
      /\ tabs[tabId].open
      /\ Cardinality(FreeSlots) >= 2
      /\ tasks' = [Cancel(tasks, tabId) EXCEPT
                     ![s1] = StopTask(tabId, "start", 0),
                     ![s2] = IF InvalidConfig(config)
                               THEN Idle
                               ELSE [Idle EXCEPT !.kind = "start", !.tab = tabId,
                                                 !.pc = "st_tab", !.origin = "command",
                                                 !.cfg = config]]
      /\ storeQ' = Append(storeQ, s1)
      /\ monitoringIntervals' = StopIntervals(tabId)
      /\ timers' = StopTimers(tabId)
      /\ responses' =
           IF InvalidConfig(config)
             THEN Append(responses, Response("startMonitoring", tabId, FALSE,
                                             "Invalid monitoring configuration"))
             ELSE responses
      /\ stopDone' = IF InvalidConfig(config) THEN stopDone ELSE stopDone \ {tabId}
      /\ commands' = commands - 1
      /\ UnchangedEnv
      /\ UNCHANGED <<monitoringConfig, nextTimer, posts, exhausted, outcomes, late, ticks>>
      /\ UNCHANGED logVars

\* tabs.get resolved or rejected: saveMonitoringConfig issues its get
StartAfterTabGet(i) ==
  /\ tasks[i].pc = "st_tab"
  /\ tasks' = [tasks EXCEPT ![i].pc = "st_save_get",
                            ![i].cfg = StartedConfig(tasks[i].cfg, tasks[i].tab,
                                                     tabs[tasks[i].tab]),
                            ![i].snap = monitoringConfig]
  /\ storeQ' = Append(storeQ, i)
  /\ UnchangedEnv
  /\ UNCHANGED <<monitoringConfig, monitoringIntervals, timers, nextTimer, posts,
                 responses, stopDone, exhausted, outcomes, late, ticks, commands>>
  /\ UNCHANGED logVars

\* saveMonitoringConfig: the get resolved; configs[tabId] = config and set
StartSaveWrite(i) ==
  /\ tasks[i].pc = "st_save_get"
  /\ StoreReady(i)
  /\ monitoringConfig' = MapSet(tasks[i].snap, tasks[i].tab, tasks[i].cfg)
  /\ tasks' = [tasks EXCEPT ![i].pc = "st_save_set"]
  /\ storeQ' = Append(Tail(storeQ), i)
  /\ UnchangedEnv
  /\ UNCHANGED <<monitoringIntervals, timers, nextTimer, posts, responses, stopDone,
                 exhausted, outcomes, late, ticks, commands>>
  /\ UNCHANGED logVars

\* the set resolved: ensureContentScriptLoaded begins
StartSaved(i) ==
  /\ tasks[i].pc = "st_save_set"
  /\ StoreReady(i)
  /\ storeQ' = Tail(storeQ)
  /\ tasks' = [tasks EXCEPT ![i].pc = "st_ensure"]
  /\ UnchangedEnv
  /\ UNCHANGED <<monitoringConfig, monitoringIntervals, timers, nextTimer, posts,
                 responses, stopDone, exhausted, outcomes, late, ticks, commands>>
  /\ UNCHANGED logVars

\* the tasks after startMonitoring in slot i returned to its caller
StartReturned(ts, i) ==
  IF ts[i].parent # 0
    THEN [ts EXCEPT ![i] = Idle,
                    ![ts[i].parent].pc = "r_loop",
                    ![ts[i].parent].keys = Tail(ts[ts[i].parent].keys)]
    ELSE [ts EXCEPT ![i] = Idle]

\* a start that sets up the interval only after an answered or failed initial
\* extractContent, and answers alike
StartInstallIfLoaded(i) ==
  LET loaded == tasks[i].pc = "st_extract"
  IN  /\ timers' = IF loaded THEN timers \cup {[id |-> nextTimer, tab |-> tasks[i].tab]}
                   ELSE timers
      /\ monitoringIntervals' = IF loaded
                                  THEN MapSet(monitoringIntervals, tasks[i].tab, nextTimer)
                                  ELSE monitoringIntervals
      /\ nextTimer' = nextTimer + 1
      /\ responses' =
           IF tasks[i].origin = "command"
             THEN Append(responses, Response("startMonitoring", tasks[i].tab, TRUE,
                                             "Monitoring started"))
             ELSE responses

\* setInterval, monitoringIntervals.set and the handler's sendResponse
StartInstall(i) ==
  /\ timers' = timers \cup {[id |-> nextTimer, tab |-> tasks[i].tab]}
  /\ monitoringIntervals' = MapSet(monitoringIntervals, tasks[i].tab, nextTimer)
  /\ nextTimer' = nextTimer + 1
  /\ responses' =
       IF tasks[i].origin = "command"
         THEN Append(responses, Response("startMonitoring", tasks[i].tab, TRUE,
                                         "Monitoring started"))
         ELSE responses

\* ensureContentScriptLoaded resolved: with the content script loaded the
\* initial extractContent is sent, without it the interval is set up at once
StartEnsured(i, contentScriptLoaded) ==
  /\ tasks[i].pc = "st_ensure"
  /\ contentScriptLoaded =>
       tabs[tasks[i].tab].open /\ IsValidWebPage(tabs[tasks[i].tab].url)
  /\ IF contentScriptLoaded
       THEN /\ tasks' = [tasks EXCEPT ![i].pc = "st_extract"]
            /\ UNCHANGED <<timers, monitoringIntervals, nextTimer, responses>>
       ELSE /\ tasks' = StartReturned(tasks, i)
            /\ StartInstall(i)
  /\ UnchangedEnv
  /\ UNCHANGED <<monitoringConfig, storeQ, posts, stopDone, exhausted, outcomes, late,
                 ticks, commands>>
  /\ UNCHANGED logVars

\* the "contentExtracted" message the content script sends for a result
ExtractedMessage(tabId, result, origin, cancelled) ==
  [Idle EXCEPT !.kind = "proc", !.tab = tabId, !.pc = "p_msg", !.origin = origin,
               !.data = result.content, !.url = tabs[tabId].url,
               !.cancelled = cancelled]

\* the initial extractContent was answered or failed: the interval is set up
StartExtracted(i) ==
  LET tabId == tasks[i].tab
      result == IF tabs[tabId].open
                  THEN ExtractBlockContent(page[tabId], tasks[i].cfg.selector, "html", TRUE)
                  ELSE ExtractFailure("Could not establish connection")
      done == StartReturned(tasks, i)
      free == {s \in Slots : done[s].kind = "idle"}
      slot == CHOOSE s \in free : \A u \in free : s <= u
  IN  /\ tasks[i].pc = "st_extract"
      /\ tasks' = IF result.success
                    THEN [done EXCEPT ![slot] = ExtractedMessage(tabId, result, "initial", FALSE)]
                    ELSE done
      /\ StartInstall(i)
      /\ UnchangedEnv
      /\ UNCHANGED <<monitoringConfig, storeQ, posts, stopDone, exhausted, outcomes,
                     late, ticks, commands>>
      /\ UNCHANGED logVars

(***************************************************************************)
(* The browser and the pages                                               *)
(***************************************************************************)
\* the page shows something else under the selector
PageChange(tabId, pg) ==
  /\ tabs[tabId].open
  /\ pg # page[tabId]
  /\ page' = [page EXCEPT ![tabId] = pg]
  /\ UNCHANGED <<tabs, webhookUrl, monitoringConfig, monitoringIntervals, timers,
                 nextTimer, tasks, storeQ, posts, responses, stopDone, exhausted,
                 outcomes, late, ticks, commands>>
  /\ UNCHANGED logVars

(***************************************************************************)
(* refreshPage: the cycle of an interval tick                              *)
(***************************************************************************)
\* the interval fires: refreshPage(tabId) is called and awaits tabs.get
Tick(timer) ==
  /\ ticks > 0
  /\ FreeSlots # {}
  /\ tasks' = [tasks EXCEPT ![Slot1] = [Idle EXCEPT !.kind = "cycle", !.tab = timer.tab,
                                                    !.pc = "c_tab", !.origin = "cycle"]]
  /\ ticks' = ticks - 1
  /\ UnchangedEnv
  /\ UNCHANGED <<monitoringConfig, monitoringIntervals, timers, nextTimer, storeQ,
                 posts, responses, stopDone, exhausted, outcomes, late, commands>>
  /\ UNCHANGED logVars

\* tabs.get resolved (getMonitoringConfig is called) or rejected (the catch)
CycleAfterTabGet(i) ==
  LET tabId == tasks[i].tab
  IN  /\ tasks[i].pc = "c_tab"
      /\ IF tabs[tabId].open
           THEN /\ tasks' = [tasks EXCEPT ![i].pc = "c_cfg",
                                          ![i].url = tabs[tabId].url,
                                          ![i].cfg = GetMonitoringConfig(monitoringConfig, tabId)]
                /\ storeQ' = Append(storeQ, i)
           ELSE /\ tasks' = [tasks EXCEPT ![i] = Idle]
                /\ storeQ' = storeQ
      /\ UnchangedEnv
      /\ UNCHANGED <<monitoringConfig, monitoringIntervals, timers, nextTimer, posts,
                     responses, stopDone, exhausted, outcomes, late, ticks, commands>>
      /\ UNCHANGED logVars

\* the URL check made against the stored url before the initial one
NavigatedAwayFromStoredUrl(config, tabUrl) ==
  LET targetUrl == IF config.url # "" THEN config.url ELSE config.initialUrl
  IN  /\ targetUrl # ""
      /\ tabUrl # ""
      /\ NormalizeUrl(targetUrl) # NormalizeUrl(tabUrl)

\* the tab is no longer on the monitored URL
NavigatedAway(config, tabUrl) ==
  LET targetUrl == IF config.initialUrl # "" THEN config.initialUrl ELSE config.url
  IN  /\ targetUrl # ""
      /\ tabUrl # ""
      /\ NormalizeUrl(targetUrl) # NormalizeUrl(tabUrl)

\* the config arrived: return without one, stop on a navigated tab, else reload
CycleAfterConfig(i) ==
  LET tabId == tasks[i].tab
      config == tasks[i].cfg
      usable == config.present /\ config.selector # ""
      away == usable /\ NavigatedAway(config, tasks[i].url)
  IN  /\ tasks[i].pc = "c_cfg"
      /\ StoreReady(i)
      /\ away => FreeSlots # {}
      /\ tasks' = IF ~usable THEN [tasks EXCEPT ![i] = Idle]
                  ELSE IF away
                    THEN [Cancel(tasks, tabId) EXCEPT
                            ![i].pc = "c_stop", ![i].cancelled = TRUE,
                            ![Slot1] = StopTask(tabId, "cycle", i)]
                    ELSE [tasks EXCEPT ![i].pc = "c_reload"]
      /\ storeQ' = IF away THEN Append(Tail(storeQ), Slot1) ELSE Tail(storeQ)
      /\ monitoringIntervals' = IF away THEN StopIntervals(tabId) ELSE monitoringIntervals
      /\ timers' = IF away THEN StopTimers(tabId) ELSE timers
      /\ UnchangedEnv
      /\ UNCHANGED <<monitoringConfig, nextTimer, posts, responses, stopDone, exhausted,
                     outcomes, late, ticks, commands>>
      /\ UNCHANGED logVars

\* tabs.reload and waitForTabComplete are over: setTimeout(tryExtract, 5000)
CycleReloaded(i) ==
  /\ tasks[i].pc = "c_reload"
  /\ tasks' = IF tabs[tasks[i].tab].open
                THEN [tasks EXCEPT ![i].pc = "c_try", ![i].n = 0]
                ELSE [tasks EXCEPT ![i] = Idle]
  /\ UnchangedEnv
  /\ UNCHANGED <<monitoringConfig, monitoringIntervals, timers, nextTimer, storeQ,
                 posts, responses, stopDone, exhausted, outcomes, late, ticks, commands>>
  /\ UNCHANGED logVars

\* a catch that also retries with retries = maxRetries
RetryLeftInclusive(retries) == retries <= maxRetries

\* tryExtract's catch: retries < maxRetries
RetryLeft(retries) == retries < maxRetries

\* a timer of tryExtract fires: the content script extracts and answers (and
\* sends "contentExtracted" for a result), tryExtract accepts or retries
TryExtract(i) ==
  LET tabId == tasks[i].tab
      result == IF tabs[tabId].open
                  THEN ExtractBlockContent(page[tabId], tasks[i].cfg.selector, "html", TRUE)
                  ELSE ExtractFailure("Could not establish connection")
      accepted == ResponseAccepted(result)
      after == IF accepted \/ ~RetryLeft(tasks[i].n)
                 THEN [tasks EXCEPT ![i] = Idle]
                 ELSE [tasks EXCEPT ![i].n = tasks[i].n + 1]
  IN  /\ tasks[i].pc = "c_try"
      /\ result.success => FreeSlots # {}
      /\ tasks' = IF result.success
                    THEN [after EXCEPT ![Slot1] =
                            ExtractedMessage(tabId, result, "cycle", tasks[i].cancelled)]
                    ELSE after
      /\ exhausted' = IF accepted THEN [exhausted EXCEPT ![tabId] = 0]
                      ELSE IF ~RetryLeft(tasks[i].n)
                        THEN [exhausted EXCEPT ![tabId] = exhausted[tabId] + 1]
                        ELSE exhausted
      /\ UnchangedEnv
      /\ UNCHANGED <<monitoringConfig, monitoringIntervals, timers, nextTimer, storeQ,
                     posts, responses, stopDone, outcomes, late, ticks, commands>>
      /\ UNCHANGED logVars

(***************************************************************************)
(* processContentExtraction and hasContentChanged                          *)
(***************************************************************************)
\* what hasContentChanged decided for one extraction
Outcome(t, dispatched, wrote) ==
  [tab |-> t.tab, seen |-> t.seen, hash |-> GenerateContentHash(t.data),
   dispatched |-> dispatched, wrote |-> wrote]

\* the call of sendContentToWebhook up to its getMonitoringConfig
SendCall(t) ==
  [t EXCEPT !.pc = "s_get",
            !.cfg = GetMonitoringConfig(monitoringConfig, t.tab)]

\* "contentExtracted" is delivered: processContentExtraction reads the config
ProcBegin(i) ==
  /\ tasks[i].pc = "p_msg"
  /\ tasks' = [tasks EXCEPT ![i].pc = "p_get1",
                            ![i].cfg = GetMonitoringConfig(monitoringConfig, tasks[i].tab)]
  /\ storeQ' = Append(storeQ, i)
  /\ UnchangedEnv
  /\ UNCHANGED <<monitoringConfig, monitoringIntervals, timers, nextTimer, posts,
                 responses, stopDone, exhausted, outcomes, late, ticks, commands>>
  /\ UNCHANGED logVars

\* without a config or without content return; else hasContentChanged reads
\* the config again
ProcAfterGet1(i) ==
  /\ tasks[i].pc = "p_get1"
  /\ StoreReady(i)
  /\ IF tasks[i].cfg.present /\ tasks[i].data.len > 0
       THEN /\ tasks' = [tasks EXCEPT ![i].pc = "p_get2",
                                      ![i].cfg = GetMonitoringConfig(monitoringConfig,
                                                                     tasks[i].tab)]
            /\ storeQ' = Append(Tail(storeQ), i)
       ELSE /\ tasks' = [tasks EXCEPT ![i] = Idle]
            /\ storeQ' = Tail(storeQ)
  /\ UnchangedEnv
  /\ UNCHANGED <<monitoringConfig, monitoringIntervals, timers, nextTimer, posts,
                 responses, stopDone, exhausted, outcomes, late, ticks, commands>>
  /\ UNCHANGED logVars

\* hasContentChanged has its config: without one, or without change
\* detection, it returns true and the content is sent; else the hash is taken
ProcAfterGet2(i) ==
  LET t == [tasks[i] EXCEPT !.seen = tasks[i].cfg]
      detect == DetectionOn(t.seen)
  IN  /\ tasks[i].pc = "p_get2"
      /\ StoreReady(i)
      /\ tasks' = IF detect
                    THEN [tasks EXCEPT ![i] = [t EXCEPT !.pc = "p_hash"]]
                    ELSE [tasks EXCEPT ![i] = SendCall([t EXCEPT !.changed = TRUE])]
      /\ storeQ' = IF detect THEN Tail(storeQ) ELSE Append(Tail(storeQ), i)
      /\ outcomes' = IF detect THEN outcomes ELSE outcomes \cup {Outcome(t, TRUE, FALSE)}
      /\ UnchangedEnv
      /\ UNCHANGED <<monitoringConfig, monitoringIntervals, timers, nextTimer, posts,
                     responses, stopDone, exhausted, late, ticks, commands>>
      /\ UNCHANGED logVars

\* hasContentChanged with the first run reported as a change
HasContentChangedNoBaseline(config, currentHash) ==
  IF config.lastContentHash = NoHash THEN [changed |-> TRUE, save |-> TRUE]
  ELSE IF currentHash = config.lastContentHash THEN [changed |-> FALSE, save |-> FALSE]
  ELSE [changed |-> TRUE, save |-> TRUE]

\* hasContentChanged after the hash: what it returns and whether it saves
HasContentChanged(config, currentHash) ==
  IF config.lastContentHash = NoHash THEN [changed |-> FALSE, save |-> TRUE]
  ELSE IF currentHash = config.lastContentHash THEN [changed |-> FALSE, save |-> FALSE]
  ELSE [changed |-> TRUE, save |-> TRUE]

\* the hash is there: save it (first run, or changed) or return false
ProcHashed(i) ==
  LET t == tasks[i]
      currentHash == GenerateContentHash(t.data)
      d == HasContentChanged(t.seen, currentHash)
  IN  /\ t.pc = "p_hash"
      /\ IF d.save
           THEN /\ tasks' = [tasks EXCEPT ![i].pc = "p_save_get",
                                          ![i].changed = d.changed,
                                          ![i].stored = currentHash,
                                          ![i].cfg = [t.seen EXCEPT !.lastContentHash = currentHash],
                                          ![i].snap = monitoringConfig]
                /\ storeQ' = Append(storeQ, i)
                /\ outcomes' = outcomes
           ELSE /\ tasks' = [tasks EXCEPT ![i] = Idle]
                /\ storeQ' = storeQ
                /\ outcomes' = outcomes \cup {Outcome(t, FALSE, FALSE)}
      /\ UnchangedEnv
      /\ UNCHANGED <<monitoringConfig, monitoringIntervals, timers, nextTimer, posts,
                     responses, stopDone, exhausted, late, ticks, commands>>
      /\ UNCHANGED logVars

\* what a cancelled cycle did after the stop of its tab had completed
Late(t, what) ==
  IF t.cancelled /\ t.tab \in stopDone THEN {[tab |-> t.tab, what |-> what]} ELSE {}

\* saveMonitoringConfig of hasContentChanged: the get resolved; set
ProcSaveWrite(i) ==
  /\ tasks[i].pc = "p_save_get"
  /\ StoreReady(i)
  /\ monitoringConfig' = MapSet(tasks[i].snap, tasks[i].tab, tasks[i].cfg)
  /\ tasks' = [tasks EXCEPT ![i].pc = "p_save_set"]
  /\ storeQ' = Append(Tail(storeQ), i)
  /\ late' = late \cup Late(tasks[i], "last_hash")
  /\ UnchangedEnv
  /\ UNCHANGED <<monitoringIntervals, timers, nextTimer, posts, responses, stopDone,
                 exhausted, outcomes, ticks, commands>>
  /\ UNCHANGED logVars

\* the set resolved: hasContentChanged returns; a change is sent
ProcSaved(i) ==
  /\ tasks[i].pc = "p_save_set"
  /\ StoreReady(i)
  /\ tasks' = IF tasks[i].changed
                THEN [tasks EXCEPT ![i] = SendCall(tasks[i])]
                ELSE [tasks EXCEPT ![i] = Idle]
  /\ storeQ' = IF tasks[i].changed THEN Append(Tail(storeQ), i) ELSE Tail(storeQ)
  /\ outcomes' = outcomes \cup {Outcome(tasks[i], tasks[i].changed, TRUE)}
  /\ UnchangedEnv
  /\ UNCHANGED <<monitoringConfig, monitoringIntervals, timers, nextTimer, posts,
                 responses, stopDone, exhausted, late, ticks, commands>>
  /\ UNCHANGED logVars

(***************************************************************************)
(* sendContentToWebhook and the "sendContentNow" handler                   *)
(***************************************************************************)
\* sendContentToWebhook returns: a manual send answers the popup; status is
\* what the fetch came back with (0: no fetch, or rejected)
SendReturn(t, result, posted, status) ==
  IF t.origin = "manual"
    THEN Append(responses,
           [Response("sendContentNow", t.tab, result.success, result.message)
              EXCEPT !.override = t.override, !.tabHook = t.cfg.webhookUrl,
                     !.posted = posted, !.status = status])
    ELSE responses

\* the webhook strings a request can carry, and a padded one
FormHook == "https://form.example/hook"
PaddedHook == " https://form.example/hook "
BareHook == "n8n.example/hook"
TabHook == "https://tab.example/hook"
GlobalHook == "https://global.example/hook"

\* request.webhookUrl.trim()
TrimHook(s) == IF s = PaddedHook THEN FormHook ELSE Trim(s)

RequestHooks == {Null, "", "   ", SENTINEL, BareHook, PaddedHook, FormHook}

\* handleSendContentNow's call of sendContentToWebhook(tabId, data.content,
\* url, data.selector, true, webhookUrl)
SendNowCall(tabId, content, requestHook) ==
  [Idle EXCEPT !.kind = "send", !.tab = tabId, !.origin = "manual",
               !.data = content, !.url = tabs[tabId].url,
               !.changed = TRUE,
               !.override = IF IsBlank(requestHook) THEN Null
                            ELSE TrimHook(requestHook)]

\* the message handler of "sendContentNow" up to sendContentToWebhook's read
\* of the config; data is the extraction result the popup passes on
HandleSendContentNow(tabId, data, requestHook) ==
  LET call == SendNowCall(tabId, data.content, requestHook)
  IN  /\ commands > 0
      /\ tabs[tabId].open
      /\ FreeSlots # {}
      /\ commands' = commands - 1
      /\ IF data.success
           THEN /\ tasks' = [tasks EXCEPT ![Slot1] = SendCall(call)]
                /\ storeQ' = Append(storeQ, Slot1)
                /\ responses' = responses
           ELSE /\ tasks' = tasks
                /\ storeQ' = storeQ
                /\ responses' = Append(responses,
                     Response("sendContentNow", tabId, FALSE, "Failed to extract content"))
      /\ UnchangedEnv
      /\ UNCHANGED <<monitoringConfig, monitoringIntervals, timers, nextTimer, posts,
                     stopDone, exhausted, outcomes, late, ticks>>
      /\ UNCHANGED logVars

\* the config arrived: POST to the override or to the tab's webhook, fail on
\* the placeholder, or read the global webhook
SendAfterConfig(i) ==
  LET t == tasks[i]
      r == ResolveLocal(t.override, t.cfg)
  IN  /\ t.pc = "s_get"
      /\ StoreReady(i)
      /\ tasks' = IF r.needGlobal
                    THEN [tasks EXCEPT ![i].pc = "s_global", ![i].hook = webhookUrl]
                  ELSE IF r.ok
                    THEN [tasks EXCEPT ![i].pc = "s_fetch", ![i].hook = r.url]
                  ELSE [tasks EXCEPT ![i] = Idle]
      /\ storeQ' = IF r.needGlobal THEN Append(Tail(storeQ), i) ELSE Tail(storeQ)
      /\ posts' = IF r.ok THEN Append(posts, Post(t, r.url)) ELSE posts
      /\ late' = IF r.ok THEN late \cup Late(t, "dispatch") ELSE late
      /\ responses' = IF ~r.needGlobal /\ ~r.ok
                        THEN SendReturn(t, [success |-> FALSE, message |-> r.message], FALSE, 0)
                        ELSE responses
      /\ UnchangedEnv
      /\ UNCHANGED <<monitoringConfig, monitoringIntervals, timers, nextTimer, stopDone,
                     exhausted, outcomes, ticks, commands>>
      /\ UNCHANGED logVars

\* the global webhook arrived: POST to it, or fail without one
SendAfterGlobal(i) ==
  LET t == tasks[i]
      r == ResolveGlobal(t.hook)
  IN  /\ t.pc = "s_global"
      /\ StoreReady(i)
      /\ tasks' = IF r.ok THEN [tasks EXCEPT ![i].pc = "s_fetch", ![i].hook = r.url]
                  ELSE [tasks EXCEPT ![i] = Idle]
      /\ storeQ' = Tail(storeQ)
      /\ posts' = IF r.ok THEN Append(posts, Post(t, r.url)) ELSE posts
      /\ late' = IF r.ok THEN late \cup Late(t, "dispatch") ELSE late
      /\ responses' = IF r.ok THEN responses
                      ELSE SendReturn(t, [success |-> FALSE, message |-> r.message], FALSE, 0)
      /\ UnchangedEnv
      /\ UNCHANGED <<monitoringConfig, monitoringIntervals, timers, nextTimer, stopDone,
                     exhausted, outcomes, ticks, commands>>
      /\ UNCHANGED logVars

\* fetch() resolved with a status or rejected
SendFetched(i, outcome) ==
  /\ tasks[i].pc = "s_fetch"
  /\ tasks' = [tasks EXCEPT ![i] = Idle]
  /\ responses' = SendReturn(tasks[i], SendResult(outcome), TRUE, outcome)
  /\ UnchangedEnv
  /\ UNCHANGED <<monitoringConfig, monitoringIntervals, timers, nextTimer, storeQ,
                 posts, stopDone, exhausted, outcomes, late, ticks, commands>>
  /\ UNCHANGED logVars

(***************************************************************************)
(* restoreMonitoringState                                                  *)
(***************************************************************************)
RECURSIVE SortedKeys(_)
\* the integer keys of an object in the order of Object.entries
SortedKeys(S) ==
  IF S = {} THEN <<>>
  ELSE LET k == CHOOSE x \in S : \A y \in S : x <= y
       IN  <<k>> \o SortedKeys(S \ {k})

RECURSIVE EntriesOf(_, _)
EntriesOf(configs, ks) ==
  IF ks = <<>> THEN <<>>
  ELSE <<[key |-> Head(ks), config |-> configs[Head(ks)]]>> \o EntriesOf(configs, Tail(ks))

\* Object.entries(configs)
Entries(configs) == EntriesOf(configs, SortedKeys(DOMAIN configs))

\* tabs.query({}) filtered to web pages: the open tabs on http(s) URLs
WebTabs == {[id |-> t, url |-> tabs[t].url] : t \in {u \in TabIds : tabs[u].open /\ IsValidWebPage(tabs[u].url)}}

\* webTabs.find(tab => normalizeUrl(tab.url) === normalizedTarget): 0 for none
MatchingTab(webTabs, targetUrl) ==
  LET hits == {w \in webTabs : NormalizeUrl(w.url) = NormalizeUrl(targetUrl)}
  IN  IF hits = {} THEN 0
      ELSE (CHOOSE w \in hits : \A v \in hits : w.id <= v.id).id

\* runtime.onStartup / onInstalled: restoreMonitoringState reads the configs
OnStartup ==
  /\ commands > 0
  /\ FreeSlots # {}
  /\ commands' = commands - 1
  /\ tasks' = [tasks EXCEPT ![Slot1] = [Idle EXCEPT !.kind = "restore", !.pc = "r_get",
                                                    !.origin = "startup",
                                                    !.snap = monitoringConfig]]
  /\ storeQ' = Append(storeQ, Slot1)
  /\ UnchangedEnv
  /\ UNCHANGED <<monitoringConfig, monitoringIntervals, timers, nextTimer, posts,
                 responses, stopDone, exhausted, outcomes, late, ticks>>
  /\ UNCHANGED logVars

\* the configs arrived: nothing to restore, or tabs.query
RestoreAfterGet(i) ==
  /\ tasks[i].pc = "r_get"
  /\ StoreReady(i)
  /\ storeQ' = Tail(storeQ)
  /\ tasks' = IF DOMAIN tasks[i].snap = {}
                THEN [tasks EXCEPT ![i] = Idle]
                ELSE [tasks EXCEPT ![i].pc = "r_query",
                                   ![i].keys = Entries(tasks[i].snap)]
  /\ UnchangedEnv
  /\ UNCHANGED <<monitoringConfig, monitoringIntervals, timers, nextTimer, posts,
                 responses, stopDone, exhausted, outcomes, late, ticks, commands>>
  /\ UNCHANGED logVars

\* tabs.query resolved
RestoreAfterQuery(i) ==
  /\ tasks[i].pc = "r_query"
  /\ tasks' = [tasks EXCEPT ![i].pc = "r_loop", ![i].web = WebTabs]
  /\ UnchangedEnv
  /\ UNCHANGED <<monitoringConfig, monitoringIntervals, timers, nextTimer, storeQ,
                 posts, responses, stopDone, exhausted, outcomes, late, ticks, commands>>
  /\ UNCHANGED logVars

\* restoreMonitoringState calls startMonitoring(currentTabId, config) and
\* awaits it; a throw of startMonitoring ends the restore in its catch
RestoreStartCall(ts, i, tabId, config) ==
  [ts EXCEPT ![i] = IF InvalidConfig(config) THEN Idle ELSE [ts[i] EXCEPT !.pc = "r_wait"],
             ![Slot1] = StopTask(tabId, "start", 0),
             ![Slot2] = IF InvalidConfig(config)
                          THEN Idle
                          ELSE [Idle EXCEPT !.kind = "start", !.tab = tabId,
                                            !.pc = "st_tab", !.origin = "restore",
                                            !.parent = i, !.cfg = config]]

\* one pass of the loop over the saved configs, up to its first await
RestoreLoop(i) ==
  LET t == tasks[i]
      entry == Head(t.keys)
      config == entry.config
      targetUrl == IF config.initialUrl # "" THEN config.initialUrl ELSE config.url
      match == IF config.enabled /\ targetUrl # "" THEN MatchingTab(t.web, targetUrl) ELSE 0
      configs == MapDelete(t.snap, entry.key)
  IN  /\ t.pc = "r_loop"
      /\ IF t.keys = <<>>
           THEN /\ tasks' = [tasks EXCEPT ![i] = Idle]
                /\ UNCHANGED <<storeQ, monitoringConfig, monitoringIntervals, timers, stopDone>>
         ELSE IF match = 0
           THEN /\ tasks' = [tasks EXCEPT ![i].keys = Tail(t.keys)]
                /\ UNCHANGED <<storeQ, monitoringConfig, monitoringIntervals, timers, stopDone>>
         ELSE IF entry.key # match
           THEN /\ tasks' = [tasks EXCEPT ![i].pc = "r_set", ![i].snap = configs,
                                          ![i].target = match]
                /\ monitoringConfig' = configs
                /\ storeQ' = Append(storeQ, i)
                /\ UNCHANGED <<monitoringIntervals, timers, stopDone>>
         ELSE /\ Cardinality(FreeSlots) >= 2
              /\ tasks' = RestoreStartCall(Cancel(tasks, match), i, match, config)
              /\ storeQ' = Append(storeQ, Slot1)
              /\ monitoringIntervals' = StopIntervals(match)
              /\ timers' = StopTimers(match)
              /\ stopDone' = stopDone \ {match}
              /\ UNCHANGED monitoringConfig
      /\ UnchangedEnv
      /\ UNCHANGED <<nextTimer, posts, responses, exhausted, outcomes, late, ticks, commands>>
      /\ UNCHANGED logVars

\* the set that dropped the old key resolved: startMonitoring is called
RestoreAfterSet(i) ==
  LET t == tasks[i]
  IN  /\ t.pc = "r_set"
      /\ StoreReady(i)
      /\ Cardinality(FreeSlots) >= 2
      /\ tasks' = RestoreStartCall(Cancel(tasks, t.target), i, t.target, Head(t.keys).config)
      /\ storeQ' = Append(Tail(storeQ), Slot1)
      /\ monitoringIntervals' = StopIntervals(t.target)
      /\ timers' = StopTimers(t.target)
      /\ stopDone' = stopDone \ {t.target}
      /\ UnchangedEnv
      /\ UNCHANGED <<monitoringConfig, nextTimer, posts, responses, exhausted, outcomes,
                     late, ticks, commands>>
      /\ UNCHANGED logVars

(***************************************************************************)
(* The popup's Send Now flow                                               *)
(***************************************************************************)
\* sendNow() of the popup: extractContent goes to the content script with the
\* tab id and without validateContent; for a result the content script sends
\* "contentExtracted" to the service worker and answers the popup, which then
\* sends "sendContentNow" with the result and the webhook of its form
PopupSendNow(tabId, requestHook) ==
  LET result == ExtractBlockContent(page[tabId], "#c", "html", FALSE)
      s1 == Slot1
      s2 == Slot2
  IN  /\ commands > 0
      /\ tabs[tabId].open
      /\ Cardinality(FreeSlots) >= 2
      /\ commands' = commands - 1
      /\ tasks' = IF result.success
                    THEN [tasks EXCEPT
                            ![s1] = ExtractedMessage(tabId, result, "popup", FALSE),
                            ![s2] = [Idle EXCEPT !.kind = "send", !.tab = tabId,
                                                 !.pc = "n_msg", !.origin = "manual",
                                                 !.data = result.content,
                                                 !.hook = requestHook]]
                    ELSE tasks
      /\ UnchangedEnv
      /\ UNCHANGED <<monitoringConfig, monitoringIntervals, timers, nextTimer, storeQ,
                     posts, responses, stopDone, exhausted, outcomes, late, ticks>>
      /\ UNCHANGED logVars

\* "sendContentNow" is delivered: handleSendContentNow calls sendContentToWebhook
SendNowDelivered(i) ==
  /\ tasks[i].pc = "n_msg"
  /\ tasks' = [tasks EXCEPT
                 ![i] = SendCall(SendNowCall(tasks[i].tab, tasks[i].data, tasks[i].hook))]
  /\ storeQ' = Append(storeQ, i)
  /\ UnchangedEnv
  /\ UNCHANGED <<monitoringConfig, monitoringIntervals, timers, nextTimer, posts,
                 responses, stopDone, exhausted, outcomes, late, ticks, commands>>
  /\ UNCHANGED logVars

(***************************************************************************)
(* chrome.tabs.onUpdated: the tab's URL changed                            *)
(***************************************************************************)
\* the tab navigates to url; the listener runs with changeInfo.url and awaits
\* getMonitoringConfig(tabId)
Navigate(tabId, url) ==
  /\ commands > 0
  /\ tabs[tabId].open
  /\ tabs[tabId].url # url
  /\ FreeSlots # {}
  /\ commands' = commands - 1
  /\ tabs' = [tabs EXCEPT ![tabId].url = url]
  /\ tasks' = [tasks EXCEPT ![Slot1] =
                 [Idle EXCEPT !.kind = "updated", !.tab = tabId, !.pc = "u_cfg",
                              !.origin = "updated", !.url = url,
                              !.cfg = GetMonitoringConfig(monitoringConfig, tabId)]]
  /\ storeQ' = Append(storeQ, Slot1)
  /\ UNCHANGED <<page, webhookUrl, monitoringConfig, monitoringIntervals, timers,
                 nextTimer, posts, responses, stopDone, exhausted, outcomes, late, ticks>>
  /\ UNCHANGED logVars

\* the config arrived: without one the listener is done, else
\* saveMonitoringConfig(tabId, {...config, url: tab.url}) issues its get
UpdatedAfterConfig(i) ==
  /\ tasks[i].pc = "u_cfg"
  /\ StoreReady(i)
  /\ IF tasks[i].cfg.present
       THEN /\ tasks' = [tasks EXCEPT ![i].pc = "u_save_get",
                                      ![i].cfg = [tasks[i].cfg EXCEPT !.url = tasks[i].url],
                                      ![i].snap = monitoringConfig]
            /\ storeQ' = Append(Tail(storeQ), i)
       ELSE /\ tasks' = [tasks EXCEPT ![i] = Idle]
            /\ storeQ' = Tail(storeQ)
  /\ UnchangedEnv
  /\ UNCHANGED <<monitoringConfig, monitoringIntervals, timers, nextTimer, posts,
                 responses, stopDone, exhausted, outcomes, late, ticks, commands>>
  /\ UNCHANGED logVars

\* saveMonitoringConfig's get resolved: configs[tabId] is replaced and set
UpdatedSaveWrite(i) ==
  /\ tasks[i].pc = "u_save_get"
  /\ StoreReady(i)
  /\ monitoringConfig' = MapSet(tasks[i].snap, tasks[i].tab, tasks[i].cfg)
  /\ tasks' = [tasks EXCEPT ![i].pc = "u_save_set"]
  /\ storeQ' = Append(Tail(storeQ), i)
  /\ UnchangedEnv
  /\ UNCHANGED <<monitoringIntervals, timers, nextTimer, posts, responses, stopDone,
                 exhausted, outcomes, late, ticks, commands>>
  /\ UNCHANGED logVars

\* the set resolved: the listener is done
UpdatedSaved(i) ==
  /\ tasks[i].pc = "u_save_set"
  /\ StoreReady(i)
  /\ storeQ' = Tail(storeQ)
  /\ tasks' = [tasks EXCEPT ![i] = Idle]
  /\ UnchangedEnv
  /\ UNCHANGED <<monitoringConfig, monitoringIntervals, timers, nextTimer, posts,
                 responses, stopDone, exhausted, outcomes, late, ticks, commands>>
  /\ UNCHANGED logVars

(***************************************************************************)
(* The popup's Start button                                                *)
(***************************************************************************)
\* startMonitoring() of the popup: an empty selector and an interval below 5
\* seconds are refused in the popup, else the "startMonitoring" message goes
\* to the service worker with the interval in milliseconds
PopupStartMonitoring(tabId, seconds, in) ==
  /\ in.selector # ""
  /\ seconds >= 5
  /\ HandleStartMonitoring(tabId, [in EXCEPT !.refreshInterval = seconds * 1000])

(***************************************************************************)
(* The content script's extractBlockContent, called on the page of a tab   *)
(***************************************************************************)
\* extractBlockContent(selector, contentType, validateContent) is called on
\* the page of the tab and returns
ExtractCall(tabId, selector, contentType, validateContent) ==
  /\ commands > 0
  /\ commands' = commands - 1
  /\ responses' = Append(responses,
       [action |-> "extractBlockContent", tab |-> tabId, selector |-> selector,
        contentType |-> contentType, validateContent |-> validateContent,
        element |-> page[tabId],
        result |-> ExtractBlockContent(page[tabId], selector, contentType, validateContent)])
  /\ UnchangedEnv
  /\ UNCHANGED <<monitoringConfig, monitoringIntervals, timers, nextTimer, tasks, storeQ,
                 posts, stopDone, exhausted, outcomes, late, ticks>>
  /\ UNCHANGED logVars


(***************************************************************************)
(* chrome.tabs.onRemoved                                                   *)
(***************************************************************************)
\* the tab is closed: the listener calls stopMonitoring(tabId), which clears
\* the interval and issues the get of removeMonitoringConfig
TabRemoved(tabId) ==
  /\ tabs[tabId].open
  /\ FreeSlots # {}
  /\ tabs' = [tabs EXCEPT ![tabId] = [open |-> FALSE, url |-> ""]]
  /\ tasks' = [Cancel(tasks, tabId) EXCEPT ![Slot1] = StopTask(tabId, "removed", 0)]
  /\ storeQ' = Append(storeQ, Slot1)
  /\ monitoringIntervals' = StopIntervals(tabId)
  /\ timers' = StopTimers(tabId)
  /\ UNCHANGED <<page, webhookUrl, monitoringConfig, nextTimer, posts, responses,
                 stopDone, exhausted, outcomes, late, ticks, commands>>
  /\ UNCHANGED logVars

(***************************************************************************)
(* The "getActivityLog" message                                            *)
(***************************************************************************)
\* getByTabId, getByLevel, getByCategory: getAll().filter(entry => entry[key] === value)
GetBy(b, key, value) ==
  LET Hit(entry) == Field(entry, key) = value
  IN  SelectSeq(BufGetAll(b), Hit)

\* the filters a request can carry; 0 and Null stand for a filter left out
Requests ==
  [tabId : {0, 1, 2}, level : {Null, "error", "info"},
   category : {Null, "webhook"}, limit : {0, 1, 20}]

\* handleGetActivityLog: the entries it answers with
HandleGetActivityLog(b, request) ==
  IF request.tabId # 0 THEN GetBy(b, "tabId", request.tabId)
  ELSE IF request.level # Null THEN GetBy(b, "level", request.level)
  ELSE IF request.category # Null THEN GetBy(b, "category", request.category)
  ELSE IF request.limit # 0 THEN BufGetRecent(b, request.limit)
  ELSE BufGetAll(b)

\* the "getActivityLog" message is answered
GetActivityLog(request) ==
  /\ Len(responses) < MaxQueries
  /\ responses' = Append(responses,
       [action |-> "getActivityLog", request |-> request, success |-> TRUE,
        entries |-> HandleGetActivityLog(buffer, request), all |-> getAll])
  /\ UNCHANGED logVars
  /\ UNCHANGED <<tabs, page, monitoringConfig, webhookUrl, monitoringIntervals, timers,
                 nextTimer, tasks, storeQ, posts, stopDone, exhausted, outcomes, late,
                 ticks, commands>>

\* getRecent(count) is called on the buffer
GetRecent(count) ==
  /\ Len(responses) < MaxQueries
  /\ responses' = Append(responses,
       [action |-> "getRecent", count |-> count,
        entries |-> BufGetRecent(buffer, count), all |-> getAll])
  /\ UNCHANGED logVars
  /\ UNCHANGED <<tabs, page, monitoringConfig, webhookUrl, monitoringIntervals, timers,
                 nextTimer, tasks, storeQ, posts, stopDone, exhausted, outcomes, late,
                 ticks, commands>>

(***************************************************************************)
(* Contents for the validation of extractBlockContent                      *)
(***************************************************************************)
\* n characters without white space and without a loading indicator
RECURSIVE Filler(_)
Filler(n) ==
  IF n = 0 THEN ""
  ELSE IF n % 2 = 1 THEN "x" \o Filler(n - 1)
  ELSE LET half == Filler(n \div 2) IN half \o half

\* contents at the length limit and at the line limit, with white space around
Chars99 == Filler(minContentLength - 1) \o "   "
Chars100 == " " \o Filler(minContentLength) \o "\n"
TwoLines == Filler(60) \o "\n \n" \o Filler(60)
ThreeLines == Filler(40) \o "\n" \o Filler(40) \o "\n\n" \o Filler(40) \o "\n"

\* long contents with one of the indicators, or with a word that holds one
WithLoadingDots == "Loading..." \o Filler(minContentLength)
WithLoading == Filler(minContentLength) \o " loading "
WithNaN == Filler(minContentLength) \o " NaN "
WithUndefinedItems == Filler(minContentLength) \o " undefined items"
WithOfNaNPages == Filler(minContentLength) \o " 2 of NaN pages"
WithDownloading == Filler(minContentLength) \o " downloading files"
WithBaNaNa == Filler(minContentLength) \o " BaNaNa "
WithUndefined == Filler(minContentLength) \o " undefined "
WithUpperCase == Filler(minContentLength) \o " LOADING "
(***************************************************************************)
(* Specifications                                                          *)
(***************************************************************************)
\* the monitoring service with nothing open, stored or running
InitMonIdle ==
  /\ tabs = [t \in TabIds |-> [open |-> FALSE, url |-> ""]]
  /\ page = [t \in TabIds |-> PageMissing]
  /\ monitoringConfig = EmptyMap
  /\ webhookUrl = Null
  /\ monitoringIntervals = EmptyMap
  /\ timers = {}
  /\ nextTimer = 1
  /\ tasks = [i \in 1..1 |-> Idle]
  /\ storeQ = <<>>
  /\ posts = <<>>
  /\ responses = <<>>
  /\ stopDone = {}
  /\ exhausted = [t \in TabIds |-> 0]
  /\ outcomes = {}
  /\ late = {}
  /\ ticks = 0
  /\ commands = 0

InitLogManager ==
  /\ entries = <<>>
  /\ writeIndex = 0
  /\ size = 0
  /\ failureCounters = << >>
  /\ activityLogStore = NoSnapshot
  /\ loadPending = TRUE
  /\ loadValue = NoSnapshot
  /\ nextId = 1
  /\ clock = 1
  /\ added = <<>>
  /\ history = <<>>
  /\ expected = <<>>
  /\ restarts = 0
  /\ recorded = [t \in {1, 2} |-> 0]

NextLog ==
  \/ \E in \in LogInputs : Log(in)
  \/ LoadFromStorageDone
  \/ RestartWorker
  \/ Clear

InitLog == InitLogManager /\ InitMonIdle

SpecLog == InitLog /\ [][NextLog]_vars

InitRing == InitLogManager /\ InitMonIdle

NextRing ==
  \/ RingAdd
  \/ RingClear

SpecRing == InitRing /\ [][NextRing]_vars

\* what the service worker observes and remembers, at its start
InitObserved ==
  /\ storeQ = <<>>
  /\ posts = <<>>
  /\ responses = <<>>
  /\ stopDone = {}
  /\ exhausted = [t \in TabIds |-> 0]
  /\ outcomes = {}
  /\ late = {}

\* tabs[t] for the tabs of opened (tabId -> url), closed for the others
OpenTabs(opened) ==
  [t \in TabIds |-> IF t \in DOMAIN opened
                      THEN [open |-> TRUE, url |-> opened[t]]
                      ELSE [open |-> FALSE, url |-> ""]]

\* the record startMonitoring saved for a tab on url
SavedConfig(tabId, url, changeDetection, hook, hash) ==
  [StartedConfig(Config("#c", 5000, changeDetection, url, hook), tabId,
                 [open |-> TRUE, url |-> url])
     EXCEPT !.lastContentHash = hash]

(***************************************************************************)
(* Webhook specification: manual sends for tab 1, monitored or not         *)
(***************************************************************************)
TabHooks == {Null, SENTINEL, BareHook, TabHook}
GlobalHooks == {Null, SENTINEL, GlobalHook}

InitHook ==
  /\ InitLogManager
  /\ InitObserved
  /\ tabs = OpenTabs(1 :> UrlA)
  /\ page \in {[t \in TabIds |-> pg] : pg \in {PageMissing, PageOf(ContentB)}}
  /\ webhookUrl \in GlobalHooks
  /\ \E monitored \in BOOLEAN, hook \in TabHooks :
       /\ monitoringConfig = IF monitored
                               THEN 1 :> SavedConfig(1, UrlA, TRUE, hook, NoHash)
                               ELSE EmptyMap
       /\ monitoringIntervals = IF monitored THEN 1 :> 1 ELSE EmptyMap
       /\ timers = IF monitored THEN {[id |-> 1, tab |-> 1]} ELSE {}
  /\ nextTimer = 2
  /\ tasks = [i \in 1..MaxSendTasks |-> Idle]
  /\ ticks = 0
  /\ commands = MaxSends

NextHook ==
  \/ \E h \in RequestHooks :
       HandleSendContentNow(1, ExtractBlockContent(page[1], "#c", "html", FALSE), h)
  \/ \E i \in Slots : SendAfterConfig(i)
  \/ \E i \in Slots : SendAfterGlobal(i)
  \/ \E i \in Slots, outcome \in FetchOutcomes : SendFetched(i, outcome)

SpecHook == InitHook /\ [][NextHook]_vars

(***************************************************************************)
(* Cycle specification: tab 1 is monitored, its interval ticks, and the    *)
(* page never gets ready: the element is missing or still loading          *)
(***************************************************************************)
InitCycle ==
  /\ InitLogManager
  /\ InitObserved
  /\ tabs = OpenTabs(1 :> UrlA)
  /\ page = [t \in TabIds |-> PageMissing]
  /\ webhookUrl = GlobalHook
  /\ monitoringConfig = 1 :> SavedConfig(1, UrlA, TRUE, Null, NoHash)
  /\ monitoringIntervals = 1 :> 1
  /\ timers = {[id |-> 1, tab |-> 1]}
  /\ nextTimer = 2
  /\ tasks = [i \in 1..MaxCycleTasks |-> Idle]
  /\ ticks = MaxCycleTicks
  /\ commands = 0

ProcNext ==
  \/ \E i \in Slots : ProcBegin(i)
  \/ \E i \in Slots : ProcAfterGet1(i)
  \/ \E i \in Slots : ProcAfterGet2(i)
  \/ \E i \in Slots : ProcHashed(i)
  \/ \E i \in Slots : ProcSaveWrite(i)
  \/ \E i \in Slots : ProcSaved(i)
  \/ \E i \in Slots : SendAfterConfig(i)
  \/ \E i \in Slots : SendAfterGlobal(i)
  \/ \E i \in Slots, outcome \in FetchOutcomes : SendFetched(i, outcome)

CycleNext ==
  \/ \E timer \in timers : Tick(timer)
  \/ \E i \in Slots : CycleAfterTabGet(i)
  \/ \E i \in Slots : CycleAfterConfig(i)
  \/ \E i \in Slots : CycleReloaded(i)
  \/ \E i \in Slots : TryExtract(i)

NextCycle ==
  \/ CycleNext
  \/ \E pg \in {PageMissing, PageOf(ContentLoading)} : PageChange(1, pg)

SpecCycle == InitCycle /\ [][NextCycle]_vars

(***************************************************************************)
(* Service specification: start and stop commands for tab 1, whose page    *)
(* is ready and changes between two contents, and its cycles               *)
(***************************************************************************)
InitMon ==
  /\ InitLogManager
  /\ InitObserved
  /\ tabs = OpenTabs(1 :> UrlA)
  /\ page = [t \in TabIds |-> PageOf(ContentA)]
  /\ webhookUrl = GlobalHook
  /\ monitoringConfig = EmptyMap
  /\ monitoringIntervals = EmptyMap
  /\ timers = {}
  /\ nextTimer = 1
  /\ tasks = [i \in 1..MaxTasks |-> Idle]
  /\ ticks = MaxTicks
  /\ commands = MaxCommands

StopNext ==
  \/ \E i \in Slots : StopRemoveWrite(i)
  \/ \E i \in Slots : StopFinish(i)

StartNext ==
  \/ \E i \in Slots : StartAfterTabGet(i)
  \/ \E i \in Slots : StartSaveWrite(i)
  \/ \E i \in Slots : StartSaved(i)
  \/ \E i \in Slots, loaded \in BOOLEAN : StartEnsured(i, loaded)
  \/ \E i \in Slots : StartExtracted(i)

NextMon ==
  \/ \E in \in StartInputs : HandleStartMonitoring(1, in)
  \/ HandleStopMonitoring(1)
  \/ StartNext
  \/ StopNext
  \/ CycleNext
  \/ ProcNext
  \/ \E pg \in {PageOf(ContentA), PageOf(ContentB)} : PageChange(1, pg)

SpecMon == InitMon /\ [][NextMon]_vars

(***************************************************************************)
(* Restore specification: the service worker starts with the records of    *)
(* tabs 1 and 2 stored; the pages are open under the same or new tab ids,  *)
(* which can be the old id of another record                               *)
(***************************************************************************)
InitRestore ==
  /\ InitLogManager
  /\ InitObserved
  /\ \E first \in {1, 2, 3}, urlA \in {UrlA, UrlAHash}, second \in BOOLEAN :
       tabs = OpenTabs(IF second THEN (first :> urlA) @@ ((first + 1) :> UrlB)
                       ELSE first :> urlA)
  /\ page = [t \in TabIds |-> PageOf(ContentB)]
  /\ webhookUrl = GlobalHook
  /\ \E hash \in {NoHash, GenerateContentHash(ContentA)} :
       monitoringConfig = (1 :> SavedConfig(1, UrlA, TRUE, Null, hash))
                          @@ (2 :> SavedConfig(2, UrlB, TRUE, TabHook, hash))
  /\ monitoringIntervals = EmptyMap
  /\ timers = {}
  /\ nextTimer = 1
  /\ tasks = [i \in 1..MaxRestoreTasks |-> Idle]
  /\ ticks = 0
  /\ commands = MaxStartups

NextRestore ==
  \/ OnStartup
  \/ \E i \in Slots : RestoreAfterGet(i)
  \/ \E i \in Slots : RestoreAfterQuery(i)
  \/ \E i \in Slots : RestoreLoop(i)
  \/ \E i \in Slots : RestoreAfterSet(i)
  \/ StartNext
  \/ StopNext
  \/ ProcNext

SpecRestore == InitRestore /\ [][NextRestore]_vars

(***************************************************************************)
(* Send Now specification: the popup sends the content of tab 1, which is   *)
(* monitored or not                                                        *)
(***************************************************************************)
InitSendNow ==
  /\ InitLogManager
  /\ InitObserved
  /\ tabs = OpenTabs(1 :> UrlA)
  /\ page \in {[t \in TabIds |-> pg] : pg \in {PageMissing, PageOf(ContentB)}}
  /\ webhookUrl = GlobalHook
  /\ \E monitored \in BOOLEAN, detect \in BOOLEAN,
        hash \in {NoHash, GenerateContentHash(ContentA), GenerateContentHash(ContentB)} :
       /\ monitoringConfig = IF monitored
                               THEN 1 :> SavedConfig(1, UrlA, detect, Null, hash)
                               ELSE EmptyMap
       /\ monitoringIntervals = IF monitored THEN 1 :> 1 ELSE EmptyMap
       /\ timers = IF monitored THEN {[id |-> 1, tab |-> 1]} ELSE {}
  /\ nextTimer = 2
  /\ tasks = [i \in 1..MaxNowTasks |-> Idle]
  /\ ticks = 0
  /\ commands = MaxNows

NextSendNow ==
  \/ \E h \in {Null, FormHook} : PopupSendNow(1, h)
  \/ \E i \in Slots : SendNowDelivered(i)
  \/ ProcNext

SpecSendNow == InitSendNow /\ [][NextSendNow]_vars

(***************************************************************************)
(* Navigation specification: tab 1 is monitored on URL A and navigates      *)
(***************************************************************************)
InitNav ==
  /\ InitLogManager
  /\ InitObserved
  /\ tabs = OpenTabs(1 :> UrlA)
  /\ page = [t \in TabIds |-> PageOf(ContentA)]
  /\ webhookUrl = GlobalHook
  /\ monitoringConfig = 1 :> SavedConfig(1, UrlA, TRUE, Null, NoHash)
  /\ monitoringIntervals = 1 :> 1
  /\ timers = {[id |-> 1, tab |-> 1]}
  /\ nextTimer = 2
  /\ tasks = [i \in 1..MaxNavTasks |-> Idle]
  /\ ticks = MaxNavTicks
  /\ commands = MaxNavigations

NextNav ==
  \/ \E url \in {UrlA, UrlASlash, UrlAHash, UrlB} : Navigate(1, url)
  \/ \E i \in Slots : UpdatedAfterConfig(i)
  \/ \E i \in Slots : UpdatedSaveWrite(i)
  \/ \E i \in Slots : UpdatedSaved(i)
  \/ CycleNext
  \/ StopNext
  \/ ProcNext

SpecNav == InitNav /\ [][NextNav]_vars

(***************************************************************************)
(* Masking specification: log() calls that carry webhook URLs, and restarts *)
(***************************************************************************)
NextMask ==
  \/ \E in \in WebhookLogInputs : Log(in)
  \/ LoadFromStorageDone
  \/ RestartWorker

SpecMask == InitLog /\ [][NextMask]_vars

(***************************************************************************)
(* Start specification: start commands for tab 1 from the popup and as      *)
(* messages of any other sender                                            *)
(***************************************************************************)
NextStart ==
  \/ \E in \in StartInputs, seconds \in {4, 5} : PopupStartMonitoring(1, seconds, in)
  \/ \E in \in StartInputs, ms \in {1000, 4999, 5000} :
       HandleStartMonitoring(1, [in EXCEPT !.refreshInterval = ms])
  \/ StartNext
  \/ StopNext
  \/ ProcNext

SpecStart == InitMon /\ [][NextStart]_vars

(***************************************************************************)
(* Extraction specification: extractBlockContent on the pages of the model  *)
(***************************************************************************)
InitExtract ==
  /\ InitLogManager
  /\ InitObserved
  /\ tabs = OpenTabs(1 :> UrlA)
  \* the block is missing or holds nothing, white space, a short paragraph with
  \* white space around it, or 100 characters of list items after a blank
  /\ page \in {[t \in TabIds |-> pg] :
                 pg \in {PageMissing} \cup
                        {PageOfHtml(html) : html \in
                           {"", "  \n ", " <p>Hi</p>\n",
                           " <ul><li>item 00 ok</li><li>item 01 ok</li><li>item 02 ok</li><li>item 03 ok</li><li>item 04 ok</li><"}}}
  /\ webhookUrl = GlobalHook
  /\ monitoringConfig = EmptyMap
  /\ monitoringIntervals = EmptyMap
  /\ timers = {}
  /\ nextTimer = 1
  /\ tasks = [i \in 1..1 |-> Idle]
  /\ ticks = 0
  /\ commands = MaxExtracts

NextExtract ==
  \* the selectors: none, blank, no selector at all, the block (also with white
  \* space around it) and an id that is not on the page
  \E selector \in {"", "   ", "#", "#c", " #c ", "#nonexistent"},
     contentType \in {"html", "text"},
     validateContent \in BOOLEAN :
    ExtractCall(1, selector, contentType, validateContent)

SpecExtract == InitExtract /\ [][NextExtract]_vars


(***************************************************************************)
(* Two-tab specification: start and stop commands for the tabs 1 and 2,     *)
(* each with or without a record of its own stored                          *)
(***************************************************************************)
InitPair ==
  /\ InitLogManager
  /\ InitObserved
  /\ tabs = OpenTabs((1 :> UrlA) @@ (2 :> UrlB))
  /\ page = [t \in TabIds |-> PageOf(ContentA)]
  /\ webhookUrl = GlobalHook
  /\ monitoringConfig \in
       {EmptyMap,
        1 :> SavedConfig(1, UrlA, TRUE, Null, NoHash),
        (1 :> SavedConfig(1, UrlA, TRUE, Null, NoHash))
          @@ (2 :> SavedConfig(2, UrlB, TRUE, TabHook, NoHash))}
  /\ monitoringIntervals = EmptyMap
  /\ timers = {}
  /\ nextTimer = 1
  /\ tasks = [i \in 1..MaxPairTasks |-> Idle]
  /\ ticks = 0
  /\ commands = MaxPairCommands

NextPair ==
  \/ \E tabId \in {1, 2}, in \in StartInputs : HandleStartMonitoring(tabId, in)
  \/ \E tabId \in {1, 2} : HandleStopMonitoring(tabId)
  \/ StartNext
  \/ StopNext
  \/ ProcNext

SpecPair == InitPair /\ [][NextPair]_vars

(***************************************************************************)
(* Close specification: tab 1 is started, runs its cycles and is closed     *)
(***************************************************************************)
NextClose ==
  \/ \E in \in StartInputs : HandleStartMonitoring(1, in)
  \/ TabRemoved(1)
  \/ StartNext
  \/ StopNext
  \/ CycleNext
  \/ ProcNext

SpecClose == InitMon /\ [][NextClose]_vars

(***************************************************************************)
(* Failure-counter specification: recordFailure and recordSuccess for the   *)
(* tabs 1 and 2, clear() and restarts of the service worker                 *)
(***************************************************************************)
InitFail ==
  /\ InitLogManager
  /\ InitObserved
  /\ tabs = OpenTabs((1 :> UrlA) @@ (2 :> UrlB))
  /\ page = [t \in TabIds |-> PageMissing]
  /\ webhookUrl = Null
  /\ monitoringConfig = EmptyMap
  /\ monitoringIntervals = EmptyMap
  /\ timers = {}
  /\ nextTimer = 1
  /\ tasks = [i \in 1..1 |-> Idle]
  /\ ticks = 0
  /\ commands = MaxRecords

NextFail ==
  \/ \E tabId \in {1, 2} : RecordFailure(tabId)
  \/ \E tabId \in {1, 2} : RecordSuccess(tabId)
  \/ Clear
  \/ RestartWorker

SpecFail == InitFail /\ [][NextFail]_vars

(***************************************************************************)
(* Query specification: entries of two tabs, three levels and categories    *)
(* are logged and the log is queried with every combination of filters      *)
(***************************************************************************)
NextQuery ==
  \/ \E in \in LogInputs \cup {w \in WebhookLogInputs : w.level = "error"} : Log(in)
  \/ LoadFromStorageDone
  \/ \E request \in Requests : GetActivityLog(request)

SpecQuery == InitLog /\ [][NextQuery]_vars

(***************************************************************************)
(* Recent specification: the ring buffer is filled past its capacity and    *)
(* getRecent is called with counts below, at and above its size             *)
(***************************************************************************)
NextRecent ==
  \/ RingAdd
  \/ \E count \in {0, 1, 3, RECENT_SAVED, maxSize, maxSize + 1} : GetRecent(count)

SpecRecent == InitRing /\ [][NextRecent]_vars

(***************************************************************************)
(* Validation specification: extractBlockContent on blocks whose content    *)
(* (innerHTML or innerText, as requested) is one of the strings above       *)
(***************************************************************************)
InitValidate ==
  /\ InitLogManager
  /\ InitObserved
  /\ tabs = OpenTabs((1 :> UrlA) @@ (2 :> UrlA))
  /\ \E first, second \in {Chars99, Chars100, TwoLines, ThreeLines, WithLoadingDots,
                           WithLoading, WithNaN, WithUndefinedItems, WithOfNaNPages,
                           WithDownloading, WithBaNaNa, WithUndefined, WithUpperCase} :
       page = [t \in TabIds |-> IF t = 1 THEN PageOfHtml(first)
                                ELSE IF t = 2 THEN PageOfHtml(second) ELSE PageMissing]
  /\ webhookUrl = GlobalHook
  /\ monitoringConfig = EmptyMap
  /\ monitoringIntervals = EmptyMap
  /\ timers = {}
  /\ nextTimer = 1
  /\ tasks = [i \in 1..1 |-> Idle]
  /\ ticks = 0
  /\ commands = MaxExtracts

NextValidate ==
  \E tabId \in {1, 2}, contentType \in {"html", "text"}, validateContent \in BOOLEAN :
    ExtractCall(tabId, "#c", contentType, validateContent)

SpecValidate == InitValidate /\ [][NextValidate]_vars

(***************************************************************************)
(* Hash specification: tab 1 was started without a lastContentHash, with   *)
(* change detection on or off; its page is ready and changes between two   *)
(* contents, its interval ticks and the webhook answers every POST with 200 *)
(***************************************************************************)
InitHash ==
  /\ InitLogManager
  /\ InitObserved
  /\ tabs = OpenTabs(1 :> UrlA)
  /\ page = [t \in TabIds |-> PageOf(ContentA)]
  /\ webhookUrl = GlobalHook
  /\ \E changeDetection \in BOOLEAN :
       monitoringConfig = 1 :> SavedConfig(1, UrlA, changeDetection, Null, NoHash)
  /\ monitoringIntervals = 1 :> 1
  /\ timers = {[id |-> 1, tab |-> 1]}
  /\ nextTimer = 2
  /\ tasks = [i \in 1..MaxCycleTasks |-> Idle]
  /\ ticks = MaxHashTicks
  /\ commands = 0

NextHash ==
  \/ CycleNext
  \/ \E i \in Slots : ProcBegin(i)
  \/ \E i \in Slots : ProcAfterGet1(i)
  \/ \E i \in Slots : ProcAfterGet2(i)
  \/ \E i \in Slots : ProcHashed(i)
  \/ \E i \in Slots : ProcSaveWrite(i)
  \/ \E i \in Slots : ProcSaved(i)
  \/ \E i \in Slots : SendAfterConfig(i)
  \/ \E i \in Slots : SendAfterGlobal(i)
  \/ \E i \in Slots : SendFetched(i, 200)
  \/ \E pg \in {PageOf(ContentA), PageOf(ContentB)} : PageChange(1, pg)

SpecHash == InitHash /\ [][NextHash]_vars

(***************************************************************************)
(* Round trip specification: log() calls with the URL of a failed webhook,  *)
(* restarts of the service worker and the load of the stored snapshot       *)
(***************************************************************************)
NextTrip ==
  \/ \E in \in TripLogInputs : Log(in)
  \/ LoadFromStorageDone
  \/ RestartWorker

SpecTrip == InitLog /\ [][NextTrip]_vars

(***************************************************************************)
(* Rebind specification: the record of tab 1, started on page A, is stored; *)
(* the tab (and perhaps a second one) shows page A, navigates, and the       *)
(* browser starts up and restores the monitoring                            *)
(***************************************************************************)
InitRebind ==
  /\ InitLogManager
  /\ InitObserved
  /\ \E second \in BOOLEAN :
       tabs = OpenTabs(IF second THEN (1 :> UrlA) @@ (2 :> UrlA) ELSE 1 :> UrlA)
  /\ page = [t \in TabIds |-> PageOf(ContentB)]
  /\ webhookUrl = GlobalHook
  /\ monitoringConfig = 1 :> SavedConfig(1, UrlA, TRUE, Null, NoHash)
  /\ monitoringIntervals = EmptyMap
  /\ timers = {}
  /\ nextTimer = 1
  /\ tasks = [i \in 1..MaxRestoreTasks |-> Idle]
  /\ ticks = 0
  /\ commands = MaxRebindCommands

NextRebind ==
  \/ \E url \in {UrlA, UrlAHash, UrlB} : Navigate(1, url)
  \/ \E i \in Slots : UpdatedAfterConfig(i)
  \/ \E i \in Slots : UpdatedSaveWrite(i)
  \/ \E i \in Slots : UpdatedSaved(i)
  \/ NextRestore

SpecRebind == InitRebind /\ [][NextRebind]_vars
(***************************************************************************)
(* Properties                                                              *)
(***************************************************************************)

\* C1: for every tab at most one cycle (a refreshPage call whose
\* extract-retry loop has not ended) is in flight: a tick that fires during
\* a cycle starts no second one.
C1_AtMostOneCycleInFlight ==
  \A t \in TabIds : Cardinality(InFlight("cycle", t)) <= 1

\* the change detection ran on a stored config with changeDetection on
Detecting(o) == o.seen.present /\ o.seen.changeDetection

\* C2: with change detection on, an extraction is dispatched if and only if
\* the config held a lastContentHash and the hash of the new content differs
\* from it; without a lastContentHash the hash is saved and nothing is
\* dispatched; with an equal hash nothing is dispatched and nothing saved.
\* Every automatic POST carries content that such a decision let through.
C2_DispatchIffHashChanged ==
  /\ \A o \in outcomes :
       Detecting(o) =>
         /\ o.dispatched <=> (o.seen.lastContentHash # NoHash
                              /\ o.hash # o.seen.lastContentHash)
         /\ o.seen.lastContentHash = NoHash => (o.wrote /\ ~o.dispatched)
         /\ o.hash = o.seen.lastContentHash => (~o.wrote /\ ~o.dispatched)
         /\ o.dispatched => o.wrote
  /\ \A n \in 1..Len(posts) :
       posts[n].origin # "manual" =>
         \E o \in outcomes : /\ o.dispatched
                             /\ o.tab = posts[n].tabId
                             /\ o.hash = GenerateContentHash(posts[n].content)

\* a first extraction only recorded its hash, a later one with another hash
\* was dispatched and posted
C2_Witness ==
  /\ \E o \in outcomes :
       Detecting(o) /\ o.seen.lastContentHash = NoHash /\ o.wrote /\ ~o.dispatched
  /\ \E o \in outcomes :
       Detecting(o) /\ o.seen.lastContentHash # NoHash /\ o.dispatched
  /\ \E n \in 1..Len(posts) : posts[n].origin = "cycle" /\ posts[n].changeDetected

\* C3: once the stop of a tab has completed, a cycle of the tab that was in
\* flight when the stop was called posts nothing and writes no config.
C3_CancelledCycleHasNoEffect == late = {}

\* C4: once five consecutive cycles of a tab have used up the retry budget,
\* the tab is no longer monitored (its interval is cleared).
C4_AutoStopAtFiveFailures ==
  \A t \in TabIds :
    exhausted[t] >= FAILURE_THRESHOLD => t \notin DOMAIN monitoringIntervals

\* C5: the buffer never holds more than maxSize entries, and getAll() is the
\* last min(N, maxSize) of the N entries added since the last clear, in
\* insertion order (with 101 adds: entries 2..101).
C5_RingKeepsLastCapacity ==
  /\ size <= maxSize
  /\ Len(entries) <= maxSize
  /\ Len(getAll) = Min(Len(added), maxSize)
  /\ getAll = LastN(added, maxSize)

\* 101 entries were added: getAll() is the 100 entries 2..101
C5_Witness ==
  /\ Len(added) = maxSize + 1
  /\ Len(getAll) = maxSize
  /\ getAll[1].id = added[2].id
  /\ getAll[maxSize].id = added[maxSize + 1].id

\* the same entry as it was logged
SameLogged(a, b) ==
  /\ a.id = b.id
  /\ a.timestamp = b.timestamp
  /\ a.level = b.level
  /\ a.category = b.category
  /\ a.message = b.message
  /\ a.details = b.details

Occurrences(s, e) == Cardinality({k \in 1..Len(s) : SameLogged(s[k], e)})

\* C6: after a restart and the load of the snapshot, every entry among the
\* last 50 logged before the shutdown is in getAll() exactly once, with its
\* timestamp, level, category, message and details.
C6_RestartKeepsLast50 ==
  (restarts > 0 /\ ~loadPending) =>
     \A i \in 1..Len(expected) : Occurrences(getAll, expected[i]) = 1

\* restoreMonitoringState has run and every call it started has returned
RestoreDone ==
  /\ commands = 0
  /\ \A i \in Slots : tasks[i].kind = "idle"

\* the records stored when the service worker starts: the old tab id and URL
StoredAtStartup == {[old |-> 1, url |-> UrlA], [old |-> 2, url |-> UrlB]}

\* C7: after the restore every stored config whose normalized URL is that of
\* an open tab runs under that tab's id and has its record stored under that
\* id, and under the old id no more; for one or two re-bound tabs.
C7_RestoreRebindsEveryTarget ==
  RestoreDone =>
    \A e \in StoredAtStartup :
      LET current == MatchingTab(WebTabs, e.url)
      IN  current # 0 =>
            /\ current \in DOMAIN monitoringIntervals
            /\ current \in DOMAIN monitoringConfig
            /\ e.old # current => e.old \notin DOMAIN monitoringConfig

\* the answers to "stopMonitoring"
StopResponses == {responses[n] : n \in {m \in 1..Len(responses) :
                                          responses[m].action = "stopMonitoring"}}

FirstNonEmpty(override, tabHook, global) ==
  IF ~IsBlank(override) THEN override
  ELSE IF ~IsBlank(tabHook) THEN tabHook
  ELSE global

\* C9: every POST goes to the first non-blank of the override, the tab's
\* webhook and the global webhook, and metadata.webhookUrl reports it.
C9_PostGoesToFirstNonEmpty ==
  \A n \in 1..Len(posts) :
    /\ posts[n].to = FirstNonEmpty(posts[n].override, posts[n].tabHook, webhookUrl)
    /\ posts[n].metaWebhookUrl = posts[n].to

\* a POST went to the override although the tab and the global webhook are
\* set, and another to the tab's webhook although the global one is set
C9_Witness ==
  /\ ~IsBlank(webhookUrl)
  /\ \E n \in 1..Len(posts) :
       /\ ~IsBlank(posts[n].override) /\ ~IsBlank(posts[n].tabHook)
       /\ posts[n].to = posts[n].override /\ posts[n].to # posts[n].tabHook
  /\ \E n \in 1..Len(posts) :
       /\ IsBlank(posts[n].override) /\ ~IsBlank(posts[n].tabHook)
       /\ posts[n].to = posts[n].tabHook

\* the answers of sendContentToWebhook to "sendContentNow"
SendResponses == {responses[n] : n \in {m \in 1..Len(responses) :
                     /\ responses[m].action = "sendContentNow"
                     /\ responses[m].message # "Failed to extract content"}}

\* an absolute http or https URL, among the webhook strings of the model
WellFormed(u) == u \in {FormHook, TabHook, GlobalHook}

C11_SendNowLeavesDetectionAlone ==
  /\ \A n \in 1..Len(posts) : posts[n].origin = "manual" => posts[n].changeDetected
  /\ \A n \in 1..Len(posts) : posts[n].origin # "popup"
  /\ \A o \in outcomes : ~o.wrote
  /\ failureCounters = EmptyMap

\* C12: a cycle that found the tab's live URL on another page than the
\* config's initialUrl (after normalisation) does not reload the tab, and while
\* it stops the target the interval is cleared and the tab is out of
\* monitoringIntervals; a rewritten url field of the config changes nothing.
C12_NavigatedAwayStopsWithoutReload ==
  \A i \in Slots :
    (tasks[i].kind = "cycle" /\ tasks[i].pc \in {"c_reload", "c_try", "c_stop"}) =>
      IF NormalizeUrl(tasks[i].url) # NormalizeUrl(tasks[i].cfg.initialUrl)
        THEN /\ tasks[i].pc = "c_stop"
             /\ tasks[i].tab \notin DOMAIN monitoringIntervals
             /\ \A t \in timers : t.tab # tasks[i].tab
        ELSE tasks[i].pc # "c_stop"

C12_Witness ==
  \E i \in Slots :
    /\ tasks[i].kind = "cycle" /\ tasks[i].pc = "c_stop"
    /\ tasks[i].url = UrlB
    /\ tasks[i].cfg.url = UrlB
    /\ tasks[i].cfg.initialUrl = UrlA
    /\ 1 \notin DOMAIN monitoringIntervals
    /\ timers = {}

\* C13: every POST of a run in which hasContentChanged compared hashes carries
\* as content the string whose hash that run saved as lastContentHash, also
\* when the page shows something else by the time of the fetch.
C13_PostedContentIsHashedContent ==
  /\ \A n \in 1..Len(posts) :
       posts[n].detection => posts[n].stored = GenerateContentHash(posts[n].content)
  /\ \A i \in Slots :
       (tasks[i].pc \in {"p_save_get", "p_save_set"} \/ tasks[i].stored # NoHash) =>
         /\ tasks[i].stored = GenerateContentHash(tasks[i].data)
         /\ tasks[i].pc \in {"p_save_get", "p_save_set"} =>
              tasks[i].cfg.lastContentHash = tasks[i].stored

C13_Witness ==
  \E n \in 1..Len(posts) :
    /\ posts[n].detection
    /\ posts[n].content = ContentB
    /\ posts[n].stored = GenerateContentHash(ContentB)
    /\ page[1].content = ContentA

\* the webhook URL fields of an entry: metadata.webhookUrl and details.webhookUrl
WebhookFields(e) ==
  {Field(e.metadata, "webhookUrl"), Field(e.details, "webhookUrl")} \ {Undefined}

\* the webhook URLs handed to log()
RawWebhookUrls ==
  UNION {{Field(in.metadata, "webhookUrl"), Field(in.details, "webhookUrl")} :
           in \in WebhookLogInputs} \ {Undefined, ""}

\* a masked URL: "***", or a string that ends with "..." after a path prefix of
\* at most 20 characters
Masked(v) ==
  \/ v = "***"
  \/ /\ Len(v) > 3
     /\ SubSeq(v, Len(v) - 2, Len(v)) = "..."
     /\ LET u == ParseUrl(SubSeq(v, 1, Len(v) - 3))
        IN  u.ok /\ Len(u.pathname) <= 20

\* C14: every webhook URL field of every entry in the buffer and in the stored
\* snapshot is masked (scheme://host, at most 20 characters of path, "..."; or
\* "***" for a string that is no URL) and is none of the URLs handed to log().
C14_NoUnmaskedWebhookUrl ==
  \A e \in {getAll[k] : k \in 1..Len(getAll)}
            \cup {activityLogStore.value[k] : k \in 1..Len(activityLogStore.value)} :
    \A v \in WebhookFields(e) :
      /\ Masked(v)
      /\ v \notin RawWebhookUrls

\* C15: no stored config and no start in flight has a refreshInterval below
\* 5000 ms, and the tab is monitored only with a stored interval of at least
\* 5000 ms, whoever sent the start command.
C15_NoIntervalBelowFiveSeconds ==
  /\ \A t \in DOMAIN monitoringConfig : monitoringConfig[t].refreshInterval >= 5000
  /\ \A i \in Slots : tasks[i].kind = "start" => tasks[i].cfg.refreshInterval >= 5000

\* C16: after clear(), once the storage calls issued before it have resumed
\* (the pending load among them) and until the next log() call, getAll() is
\* empty, no failure counter is set and no snapshot is stored.  history is
\* emptied by clear() and grows with every log() call.
C16_ClearLeavesNothing ==
  (history = <<>> /\ ~loadPending) =>
    /\ getAll = <<>>
    /\ failureCounters = EmptyMap
    /\ activityLogStore = NoSnapshot

\* C17: getAll() is in chronological order, oldest first: the timestamps never
\* decrease along it, also after the stored snapshot was loaded at startup.
C17_GetAllChronological ==
  \A i, j \in 1..Len(getAll) : i < j => getAll[i].timestamp <= getAll[j].timestamp

\* C18: a send that reached fetch() answers success exactly when the status is
\* 200 to 299; any other status and a rejected fetch are answered as a failure
\* result with its message; and the sends received so far issued at most one
\* POST each.
C18_SinglePostSuccessIffOk ==
  /\ \A r \in SendResponses :
       r.posted =>
         /\ r.success <=> (r.status >= 200 /\ r.status <= 299)
         /\ r.status = 0 => (~r.success /\ r.message = "Network error")
         /\ (r.status # 0 /\ ~r.success) => r.message = "Webhook failed"
  /\ Len(posts) <= MaxSends - commands
  /\ Len(responses) + Cardinality({i \in Slots : tasks[i].kind = "send"}) = MaxSends - commands

C18_Witness ==
  /\ \E r \in SendResponses : r.posted /\ r.status = 299 /\ r.success
  /\ \E r \in SendResponses : r.posted /\ r.status = 300 /\ ~r.success
  /\ Len(posts) = MaxSends

\* C19: when hasContentChanged finds a config with changeDetection off, the
\* extraction is dispatched and no hash is saved, and its POST carries
\* changeDetected true, whether or not the same content was sent before.
C19_NoDetectionAlwaysDispatches ==
  /\ \A o \in outcomes :
       (o.seen.present /\ ~o.seen.changeDetection) => (o.dispatched /\ ~o.wrote)
  /\ \A n \in 1..Len(posts) :
       (posts[n].origin # "manual" /\ ~posts[n].detection) =>
         (posts[n].changeDetected /\ posts[n].stored = NoHash)
  /\ \A i \in Slots :
       (tasks[i].kind = "proc" /\ tasks[i].pc \in {"p_hash", "p_save_get", "p_save_set"}) =>
         tasks[i].seen.changeDetection

C19_Witness ==
  \E n, m \in 1..Len(posts) :
    /\ n < m
    /\ posts[n].tabId = posts[m].tabId
    /\ posts[n].content = posts[m].content
    /\ ~posts[n].detection /\ ~posts[m].detection
    /\ posts[n].tabHook = TabHook /\ posts[m].tabHook = TabHook
    /\ posts[m].changeDetected

\* C20: the page of the send now specification shows one content throughout,
\* so the stored hash differs from it at most once: hasContentChanged lets at
\* most one POST through, and no two POSTs it let through carry the same
\* content for the same tab.
C20_OneChangeOnePost ==
  /\ Cardinality({n \in 1..Len(posts) : posts[n].detection}) <= 1
  /\ \A n, m \in 1..Len(posts) :
       (n < m /\ posts[n].detection /\ posts[m].detection /\ posts[n].tabId = posts[m].tabId)
         => posts[n].content # posts[m].content

\* C21: every call of extractBlockContent returns a result object: for an
\* empty or blank selector the failure 'No selector provided'; for a selector
\* that is none or finds no element a failure with an error; and a success
\* carries the trimmed content of the element and the selector as requested.
C21_ExtractReportsErrorsAsValues ==
  \A n \in 1..Len(responses) :
    LET q == responses[n]
        r == q.result
    IN  /\ r.success \in BOOLEAN
        /\ ~r.success => r.error # ""
        /\ Trim(q.selector) = "" => (~r.success /\ r.error = "No selector provided")
        /\ (Trim(q.selector) # "#c" \/ ~q.element.found) => ~r.success
        /\ r.success =>
             /\ r.selector = q.selector
             /\ r.content.body = Trim(q.element.html)
             /\ r.content.len = Len(r.content.body)

C21_Witness ==
  /\ \E n \in 1..Len(responses) :
       /\ responses[n].result.success
       /\ responses[n].selector = " #c "
       /\ responses[n].element.html = " <p>Hi</p>\n"
       /\ responses[n].result.content.body = "<p>Hi</p>"
  /\ \E n \in 1..Len(responses) :
       responses[n].selector = "#" /\ ~responses[n].result.success

\* C22: whenever a "startMonitoring" command is answered with success, the
\* stored configs hold a record of its tab with enabled = true at that moment;
\* no removal of an older record of the tab has deleted the one the start saved.
C22_StartSuccessHasRecord ==
  [][\A k \in (Len(responses) + 1)..Len(responses') :
       (responses'[k].action = "startMonitoring" /\ responses'[k].success) =>
         /\ responses'[k].tab \in DOMAIN monitoringConfig'
         /\ monitoringConfig'[responses'[k].tab].enabled]_vars

\* C23: every active interval timer is the one monitoringIntervals records for
\* its tab (so a tab has at most one), and no interval timer is active for a tab
\* whose stop has completed.
C23_OneTimerPerTab ==
  /\ \A t \in timers :
       /\ t.tab \in DOMAIN monitoringIntervals
       /\ monitoringIntervals[t.tab] = t.id
  /\ \A t \in timers : t.tab \notin stopDone

\* C24: the stored record of a tab changes only in a step of a call made for
\* that tab: no save or remove for one tab drops, restores or alters the
\* record of another tab.
C24_WritesKeepOtherRecords ==
  [][\A t \in TabIds :
       (\/ (t \in DOMAIN monitoringConfig) # (t \in DOMAIN monitoringConfig')
        \/ /\ t \in DOMAIN monitoringConfig \cap DOMAIN monitoringConfig'
           /\ monitoringConfig[t] # monitoringConfig'[t]) =>
         \E i \in Slots : tasks[i].tab = t /\ tasks'[i] # tasks[i]]_vars

\* the attempt a cycle waiting for a timer of tryExtract makes next: the first
\* one with retries = 0
NextAttempt(t) == t.n + 1

\* C25 as stated: no cycle has an attempt beyond its 10th scheduled.
C25_AtMostTenAttempts ==
  \A i \in Slots : tasks[i].pc = "c_try" => NextAttempt(tasks[i]) <= maxRetries

\* C25: no cycle has an attempt beyond its 11th scheduled: the first attempt
\* and one after each of at most 10 retries; after the 11th has failed the cycle
\* schedules nothing more.
C25_AtMostElevenAttempts ==
  \A i \in Slots : tasks[i].pc = "c_try" => NextAttempt(tasks[i]) <= maxRetries + 1

\* a cycle whose 10 earlier attempts failed has its 11th attempt scheduled
C25_Witness ==
  \E i \in Slots : tasks[i].pc = "c_try" /\ NextAttempt(tasks[i]) = maxRetries + 1

\* C26: no POST for a detected change is made by a cycle that has already
\* saved its new lastContentHash: the hash of a change is stored only after
\* the dispatch of that change.
C26_HashPersistedAfterDispatch ==
  \A n \in DOMAIN posts :
    (posts[n].detection /\ posts[n].changeDetected) => posts[n].stored = NoHash

\* C27: once a tab is closed and every call made for it has returned, the tab
\* has no entry in monitoringIntervals, no active interval timer and no stored
\* record.
C27_ClosedTabIsStopped ==
  \A t \in TabIds :
    (~tabs[t].open /\ \A i \in Slots : tasks[i].tab # t) =>
      /\ t \notin DOMAIN monitoringIntervals
      /\ \A x \in timers : x.tab # t
      /\ t \notin DOMAIN monitoringConfig

\* C28: every startMonitoring that got past its validation ends by installing a
\* new interval timer for its tab and recording it in monitoringIntervals,
\* whether or not the content script could be loaded or the initial extraction
\* was answered; and a "startMonitoring" command is refused only for an invalid
\* config.
C28_StartAlwaysInstallsTimer ==
  [][/\ \A i \in Slots :
          (tasks[i].kind = "start" /\ tasks'[i].kind # "start") =>
            /\ tasks[i].tab \in DOMAIN monitoringIntervals'
            /\ monitoringIntervals'[tasks[i].tab] \notin {x.id : x \in timers}
            /\ [id |-> monitoringIntervals'[tasks[i].tab], tab |-> tasks[i].tab] \in timers'
     /\ \A k \in (Len(responses) + 1)..Len(responses') :
          (responses'[k].action = "startMonitoring" /\ ~responses'[k].success) =>
            responses'[k].message = "Invalid monitoring configuration"]_vars

\* the only start of a tab that was closed before its content script could be
\* reached has answered with success and its interval is installed
C28_Witness ==
  /\ ~tabs[1].open
  /\ commands = MaxCommands - 1
  /\ 1 \in DOMAIN monitoringIntervals
  /\ [id |-> monitoringIntervals[1], tab |-> 1] \in timers
  /\ \E k \in DOMAIN responses :
       responses[k].action = "startMonitoring" /\ responses[k].success

\* C29: a record stored at startup whose URL no open tab shows stays stored
\* under its old tab id, as the record of that URL, throughout the restore, and
\* its tab id gets no interval, whatever the restore does for the other record.
C29_UnmatchedConfigUntouched ==
  \A e \in StoredAtStartup :
    MatchingTab(WebTabs, e.url) = 0 =>
      /\ e.old \in DOMAIN monitoringConfig
      /\ monitoringConfig[e.old].enabled
      /\ monitoringConfig[e.old].initialUrl = e.url
      /\ monitoringConfig[e.old].tabId = e.old
      /\ e.old \notin DOMAIN monitoringIntervals

\* C30: the failure count of every tab is the number of recordFailure calls
\* made for it since its last recordSuccess, the last clear() and the start of
\* the service worker, whatever was recorded for the other tab, and every
\* recordFailure returned that number.
C30_CounterCountsFailuresSinceReset ==
  /\ \A t \in DOMAIN recorded : GetFailureCount(failureCounters, t) = recorded[t]
  /\ \A n \in DOMAIN responses :
       responses[n].action = "recordFailure" => responses[n].returned = responses[n].calls

\* after a restart tab 1 has two failures and tab 2 one, with failures
\* recorded and reset before
C30_Witness ==
  /\ restarts > 0
  /\ GetFailureCount(failureCounters, 1) = 2
  /\ GetFailureCount(failureCounters, 2) = 1
  /\ Len(responses) >= 5

\* the answers to "getActivityLog"
Queries == {responses[n] : n \in {m \in DOMAIN responses :
                                    responses[m].action = "getActivityLog"}}

\* the entries of all that pass every filter the request carries, the last
\* limit of them when it carries a limit
Filtered(all, request) ==
  LET Hit(entry) == /\ request.tabId # 0 => entry.tabId = request.tabId
                    /\ request.level # Null => entry.level = request.level
                    /\ request.category # Null => entry.category = request.category
      hits == SelectSeq(all, Hit)
  IN  IF request.limit # 0 THEN LastN(hits, request.limit) ELSE hits

\* C31: every answer to "getActivityLog" holds the entries of getAll() that
\* pass all the filters of the request (tabId, level, category, limit), in the
\* order of getAll().
C31_FiltersComposeByAnd ==
  \A q \in Queries : q.entries = Filtered(q.all, q.request)

\* C32: every getRecent(count) with count >= 0 returned the last
\* min(count, size) entries of getAll() in their order, none for count = 0.
C32_GetRecentIsLastN ==
  \A n \in DOMAIN responses :
    responses[n].action = "getRecent" =>
      /\ Len(responses[n].entries) = Min(responses[n].count, Len(responses[n].all))
      /\ responses[n].entries = LastN(responses[n].all, responses[n].count)

\* C33: the stored snapshot never holds more than 50 entries, and with every
\* storage call completed (the load of the constructor among them) it is the
\* last min(50, size) entries of the buffer, oldest first.
C33_SnapshotIsLast50OfBuffer ==
  /\ activityLogStore.present => Len(activityLogStore.value) <= RECENT_SAVED
  /\ ~loadPending =>
       (IF activityLogStore.present THEN activityLogStore.value ELSE <<>>)
         = StoredEntries(LastN(getAll, RECENT_SAVED))

\* the validated calls of extractBlockContent
Validated == {responses[n] : n \in {m \in DOMAIN responses :
                /\ responses[m].action = "extractBlockContent"
                /\ responses[m].validateContent}}

\* C34: with validation, content whose trimmed length is below 100 is refused
\* and the content of exactly 100 characters is not refused for its length
\* (99 characters are); as text, the content with two non-empty lines is
\* refused and the one with three is accepted, as is the two-line one as html.
C34_LengthAndLineLimits ==
  \A q \in Validated :
    /\ Len(Trim(q.element.html)) < minContentLength => ~q.result.success
    /\ q.element.html = Chars99 => ~q.result.success
    /\ (q.element.html = Chars100 /\ q.contentType = "html") =>
         (q.result.success /\ q.result.content.len = minContentLength)
    /\ (q.element.html = Chars100 /\ q.contentType = "text") =>
         (~q.result.success /\ q.result.error = "Content appears incomplete")
    /\ (q.element.html = TwoLines /\ q.contentType = "text") => ~q.result.success
    /\ (q.element.html = TwoLines /\ q.contentType = "html") => q.result.success
    /\ q.element.html = ThreeLines => q.result.success

\* the content of 100 characters was accepted as html, and the one of two
\* lines refused as text for its lines
C34_Witness ==
  /\ \E q \in Validated :
       q.contentType = "html" /\ q.element.html = Chars100 /\ q.result.success
  /\ \E q \in Validated :
       /\ q.contentType = "text" /\ q.element.html = TwoLines
       /\ q.result.error = "Content appears incomplete"

\* the characters of a word for the pattern \b
WordChars == {"a", "b", "d", "e", "f", "g", "i", "l", "m", "n", "o", "s", "t", "u", "w", "x",
              "A", "B", "D", "G", "I", "L", "N", "O", "0", "1", "2", "_"}

\* w stands in s as a word of its own
WholeWord(s, w) ==
  \E k \in 1..(Len(s) - Len(w) + 1) :
    /\ SubSeq(s, k, k + Len(w) - 1) = w
    /\ k = 1 \/ SubSeq(s, k - 1, k - 1) \notin WordChars
    /\ k + Len(w) - 1 = Len(s) \/ SubSeq(s, k + Len(w), k + Len(w)) \notin WordChars

\* the content holds one of the markers the specification lists
HasListedMarker(s) ==
  \/ Includes(s, "Loading...")
  \/ WholeWord(s, "loading")
  \/ WholeWord(s, "NaN")
  \/ Includes(s, "undefined items")
  \/ Includes(s, "of NaN pages")

\* C35: validated content of at least 100 characters is refused as still
\* loading exactly when it holds `Loading...`, `loading` as a word, `NaN` as a
\* word, `undefined items` or `of NaN pages`, and accepted (as html) otherwise.
C35_LoadingExactlyOnListedMarkers ==
  \A q \in Validated :
    (q.contentType = "html" /\ Len(Trim(q.element.html)) >= minContentLength) =>
      /\ q.result.success = ~HasListedMarker(Trim(q.element.html))
      /\ ~q.result.success => q.result.error = "Page still loading"

\* C36: with no call in flight, the record of a tab holds a lastContentHash
\* exactly when a cycle of the tab has extracted the content and finished
\* (every POST is answered with 200): none after the start, one after any
\* finished cycle, with change detection on or off.
C36_HashPresentIffCycleSucceeded ==
  (\A i \in Slots : tasks[i].kind = "idle") =>
    \A t \in DOMAIN monitoringConfig :
      (monitoringConfig[t].lastContentHash # NoHash) <=> (\E o \in outcomes : o.tab = t)

\* C37: masking is idempotent on the webhook URLs that were logged: the masked
\* URL of every entry in the buffer and in the stored snapshot, before and
\* after the snapshot was loaded, is left as it is by maskUrl.
C37_MaskIdempotentAcrossSnapshot ==
  \A e \in {getAll[k] : k \in 1..Len(getAll)}
            \cup {activityLogStore.value[k] : k \in 1..Len(activityLogStore.value)} :
    Field(e.metadata, "webhookUrl") # Undefined =>
      MaskUrl(e.metadata.webhookUrl) = e.metadata.webhookUrl

\* C38: every tab with a timer in monitoringIntervals has a stored record with
\* enabled = true and a selector.
C38_RunningTabHasEnabledRecord ==
  \A t \in DOMAIN monitoringIntervals :
    /\ t \in DOMAIN monitoringConfig
    /\ monitoringConfig[t].enabled
    /\ monitoringConfig[t].selector # ""

\* C39: the initialUrl of the stored record stays the URL the target was
\* started on, page A: the URL updates of the tab and the restore at startup,
\* under the old or a new tab id, leave it as it is.
C39_InitialUrlNeverChanges ==
  \A t \in DOMAIN monitoringConfig : monitoringConfig[t].initialUrl = UrlA
====
